---- MODULE Spec2Model ----
(***************************************************************************)
(* iSubrek subscription tracker: the subscription server actions           *)
(* (createSubscription, updateSubscription, deleteSubscription and the     *)
(* owner-scoped reads) over the subscriptions table, and the date helpers  *)
(* of lib/date-utils.ts they call.                                         *)
(*                                                                         *)
(* A JavaScript Date is modelled by its local-time fields                  *)
(* [y, m, d, h] (m in 1..12, h = hour of the day); the process's UTC       *)
(* offset is the variable tz, fixed for a run.  A stored `date` column is  *)
(* the "YYYY-MM-DD" text the code derives with toISOString().split("T")[0],*)
(* modelled as [y, m, d].                                                  *)
(***************************************************************************)
EXTENDS Integers, Sequences, FiniteSets, TLC

----------------------------------------------------------------------------
(* Bounds of the model *)

\* first and last calendar year of the Date inputs
MinYear == 2023
MaxYear == 2024

\* hours of the day the Date inputs carry (local time)
Hours == {0, 17}

\* UTC offsets (hours east of Greenwich) the process may run under
TzOffsets == {0, 7}

----------------------------------------------------------------------------
(* The Date engine: civil date <-> day number, as JavaScript's MakeDay /   *)
(* date-field setters normalise out-of-range fields.                       *)

\* days since 1970-01-01 of the civil date y-m-d (m in 1..12)
DaysFromCivil(y, m, d) ==
  LET yy  == IF m <= 2 THEN y - 1 ELSE y
      era == yy \div 400
      yoe == yy - era * 400
      mp  == IF m > 2 THEN m - 3 ELSE m + 9
      doy == (153 * mp + 2) \div 5 + d - 1
      doe == yoe * 365 + yoe \div 4 - yoe \div 100 + doy
  IN  era * 146097 + doe - 719468

\* the civil date [y, m, d] of a day number
CivilFromDays(z0) ==
  LET z   == z0 + 719468
      era == z \div 146097
      doe == z - era * 146097
      yoe == (doe - doe \div 1460 + doe \div 36524 - doe \div 146096) \div 365
      doy == doe - (365 * yoe + yoe \div 4 - yoe \div 100)
      mp  == (5 * doy + 2) \div 153
      d   == doy - (153 * mp + 2) \div 5 + 1
      m   == IF mp < 10 THEN mp + 3 ELSE mp - 9
      y   == yoe + era * 400 + (IF m <= 2 THEN 1 ELSE 0)
  IN  [y |-> y, m |-> m, d |-> d]

\* Date.prototype.setFullYear(year, monthIndex, day) on a Date whose hour is h:
\* monthIndex is 0-based and may exceed 11, day may be 0 (the last day of the
\* month before); the fields are normalised through the day number.
setFullYear(year, monthIndex, day, h) ==
  LET first == DaysFromCivil(year + monthIndex \div 12, (monthIndex % 12) + 1, 1)
      c     == CivilFromDays(first + day - 1)
  IN  [y |-> c.y, m |-> c.m, d |-> c.d, h |-> h]

\* date-fns addMonths(date, amount): the day of the month is kept, clamped to
\* the last day of the target month; the time of day is kept.
addMonths(date, amount) ==
  LET dayOfMonth        == date.d
      endOfDesiredMonth == setFullYear(date.y, (date.m - 1) + amount + 1, 0, date.h)
      daysInMonth       == endOfDesiredMonth.d
  IN  IF amount = 0 THEN date
      ELSE IF dayOfMonth >= daysInMonth THEN endOfDesiredMonth
      ELSE setFullYear(endOfDesiredMonth.y, endOfDesiredMonth.m - 1,
                       dayOfMonth, date.h)

\* date-fns addYears(date, amount) is addMonths(date, amount * 12)
addYears(date, amount) == addMonths(date, amount * 12)

\* date.toISOString().split("T")[0]: the calendar date, in UTC, of the instant
\* whose local fields are `date` under the UTC offset `offset`
toISODateString(date, offset) ==
  LET hours == DaysFromCivil(date.y, date.m, date.d) * 24 + date.h - offset
  IN  CivilFromDays(hours \div 24)

\* new Date("YYYY-MM-DD"): the text is read as midnight UTC; the local fields of
\* that instant under the UTC offset `offset`
newDate(dateString, offset) ==
  LET hours == DaysFromCivil(dateString.y, dateString.m, dateString.d) * 24
               + offset
      c     == CivilFromDays(hours \div 24)
  IN  [y |-> c.y, m |-> c.m, d |-> c.d, h |-> hours % 24]

\* order of two stored "YYYY-MM-DD" texts (the lexicographic order of the text
\* is the order of the calendar days)
DateStrLeq(a, b) ==
  \/ a.y < b.y
  \/ a.y = b.y /\ a.m < b.m
  \/ a.y = b.y /\ a.m = b.m /\ a.d <= b.d

----------------------------------------------------------------------------
(* lib/date-utils.ts *)

\* the four tags of BillingCycle
billingCycleValues == {"monthly", "yearly", "one-time", "trial"}

\* a tag outside the BillingCycle type, as untyped callers can pass at run time
UnknownCycles == {"weekly"}

NoDate == [y |-> 0, m |-> 0, d |-> 0, h |-> 0]

\* outcome of a call: a returned Date, or a thrown Error
Returned(date) == [thrown |-> FALSE, value |-> date, error |-> ""]
Thrown(msg)    == [thrown |-> TRUE, value |-> NoDate, error |-> msg]

\* calculateNextPaymentDate with the month and the year set on the Date directly,
\* so that a day the target month lacks rolls over into the month after
calculateNextPaymentDateNoClamp(startDate, billingCycle) ==
  CASE billingCycle = "monthly"  ->
         Returned(setFullYear(startDate.y, startDate.m, startDate.d, startDate.h))
    [] billingCycle = "yearly"   ->
         Returned(setFullYear(startDate.y + 1, startDate.m - 1, startDate.d,
                              startDate.h))
    [] billingCycle = "one-time" -> Returned(startDate)
    [] billingCycle = "trial"    -> Returned(startDate)
    [] OTHER                     -> Thrown("Unknown billing cycle")

\* calculateNextPaymentDate whose switch falls back to the start date
calculateNextPaymentDateFallthrough(startDate, billingCycle) ==
  CASE billingCycle = "monthly"  -> Returned(addMonths(startDate, 1))
    [] billingCycle = "yearly"   -> Returned(addYears(startDate, 1))
    [] OTHER                     -> Returned(startDate)

calculateNextPaymentDate(startDate, billingCycle) ==
  CASE billingCycle = "monthly"  -> Returned(addMonths(startDate, 1))
    [] billingCycle = "yearly"   -> Returned(addYears(startDate, 1))
    [] billingCycle = "one-time" -> Returned(startDate)
    [] billingCycle = "trial"    -> Returned(startDate)
    [] OTHER                     -> Thrown("Unknown billing cycle")

\* advancePaymentDate that advances a trial like a monthly subscription
advancePaymentDateTrialAdvances(currentNextDate, billingCycle) ==
  CASE billingCycle = "monthly"  -> Returned(addMonths(currentNextDate, 1))
    [] billingCycle = "yearly"   -> Returned(addYears(currentNextDate, 1))
    [] billingCycle = "one-time" -> Returned(currentNextDate)
    [] billingCycle = "trial"    -> Returned(addMonths(currentNextDate, 1))
    [] OTHER                     -> Thrown("Unknown billing cycle")

advancePaymentDate(currentNextDate, billingCycle) ==
  CASE billingCycle = "monthly"  -> Returned(addMonths(currentNextDate, 1))
    [] billingCycle = "yearly"   -> Returned(addYears(currentNextDate, 1))
    [] billingCycle = "one-time" -> Returned(currentNextDate)
    [] billingCycle = "trial"    -> Returned(currentNextDate)
    [] OTHER                     -> Thrown("Unknown billing cycle")

----------------------------------------------------------------------------
(* lib/masking.ts: a payment number is a sequence of one-character strings *)

Digits == {"0", "1", "2", "3", "4", "5", "6", "7", "8", "9"}

\* fullNumber.replace(/\D/g, "")
RECURSIVE digitsOnly(_)
digitsOnly(s) ==
  IF s = <<>> THEN <<>>
  ELSE IF Head(s) \in Digits THEN <<Head(s)>> \o digitsOnly(Tail(s))
  ELSE digitsOnly(Tail(s))

\* extractLastFourDigits that keeps the first four digits
extractFirstFourDigits(fullNumber) ==
  LET ds == digitsOnly(fullNumber)
  IN  IF Len(ds) <= 4 THEN ds ELSE SubSeq(ds, 1, 4)

extractLastFourDigits(fullNumber) ==
  LET ds == digitsOnly(fullNumber)
  IN  IF Len(ds) <= 4 THEN ds ELSE SubSeq(ds, Len(ds) - 3, Len(ds))

\* maskPaymentMethod that puts the stars before however few digits there are
maskPaymentMethodAlwaysStars(fullNumber) ==
  <<"*", "*", "*", "*", " ">> \o extractLastFourDigits(fullNumber)

maskPaymentMethod(fullNumber) ==
  LET lastFour == extractLastFourDigits(fullNumber)
  IN  IF Len(lastFour) < 4 THEN lastFour
      ELSE <<"*", "*", "*", "*", " ">> \o lastFour

----------------------------------------------------------------------------
(* lib/encryption.ts: AES-256-GCM under the process key.  A string is the    *)
(* sequence of its UTF-16 code units, a Buffer a sequence of bytes.  The     *)
(* cipher is a stand-in with the properties of GCM the code relies on: for   *)
(* one key and IV it is a length-preserving bijection on byte sequences, and *)
(* the tag is determined by key, IV and ciphertext.  The text conversions    *)
(* (utf8, hex, base64) are computed as Node computes them.                   *)

IV_LENGTH == 16
AUTH_TAG_LENGTH == 16

\* the values randomBytes(IV_LENGTH) may return
IVs == {"iv1", "iv2"}

randomBytes(iv) ==
  [i \in 1 .. IV_LENGTH |-> IF iv = "iv1" THEN (17 * i) % 256 ELSE (255 - 3 * i) % 256]

\* the key derived from process.env.ENCRYPTION_KEY, the same for every call
getEncryptionKey == 42

isHighSurrogate(u) == u >= 55296 /\ u <= 56319
isLowSurrogate(u)  == u >= 56320 /\ u <= 57343

\* U+FFFD, which the utf8 encoder writes for a surrogate that has no partner
ReplacementCharacter == 65533

utf8Bytes(cp) ==
  IF cp < 128 THEN <<cp>>
  ELSE IF cp < 2048 THEN <<192 + cp \div 64, 128 + (cp % 64)>>
  ELSE IF cp < 65536
       THEN <<224 + cp \div 4096, 128 + ((cp \div 64) % 64), 128 + (cp % 64)>>
       ELSE <<240 + cp \div 262144, 128 + ((cp \div 4096) % 64),
              128 + ((cp \div 64) % 64), 128 + (cp % 64)>>

\* the parts of a sequence of sequences, one after the other
RECURSIVE concat(_)
concat(parts) ==
  IF parts = <<>> THEN <<>>
  ELSE IF Len(parts) = 1 THEN parts[1]
  ELSE LET half == Len(parts) \div 2
       IN  concat(SubSeq(parts, 1, half)) \o concat(SubSeq(parts, half + 1, Len(parts)))

\* Buffer.from(str, "utf8"): a surrogate pair is one code point, written at the
\* place of its first half
utf8Encode(str) ==
  concat([i \in 1 .. Len(str) |->
    IF isHighSurrogate(str[i])
    THEN IF i < Len(str) /\ isLowSurrogate(str[i + 1])
         THEN utf8Bytes(65536 + (str[i] - 55296) * 1024 + (str[i + 1] - 56320))
         ELSE utf8Bytes(ReplacementCharacter)
    ELSE IF isLowSurrogate(str[i])
    THEN IF i > 1 /\ isHighSurrogate(str[i - 1])
         THEN <<>>
         ELSE utf8Bytes(ReplacementCharacter)
    ELSE utf8Bytes(str[i])])

codeUnits(cp) ==
  IF cp < 65536 THEN <<cp>>
  ELSE <<55296 + (cp - 65536) \div 1024, 56320 + ((cp - 65536) % 1024)>>

\* the length of the sequence a byte leads, 0 for a byte that leads none
sequenceLength(b) ==
  IF b < 128 THEN 1
  ELSE IF b >= 192 /\ b < 224 THEN 2
  ELSE IF b >= 224 /\ b < 240 THEN 3
  ELSE IF b >= 240 /\ b < 248 THEN 4
  ELSE 0

isContinuation(b) == b >= 128 /\ b < 192

\* buf.toString("utf8"): a lead byte with its continuation bytes is one code
\* point, written at the place of the lead; U+FFFD stands for a byte that
\* belongs to no complete sequence
utf8Decode(bytes) ==
  LET n == Len(bytes)
      complete(i) ==
        /\ i + sequenceLength(bytes[i]) - 1 <= n
        /\ \A k \in i + 1 .. i + sequenceLength(bytes[i]) - 1 : isContinuation(bytes[k])
      covered(i) ==
        \E j \in 1 .. i - 1 :
           /\ sequenceLength(bytes[j]) > i - j
           /\ \A k \in j + 1 .. i : isContinuation(bytes[k])
      codePoint(i) ==
        CASE sequenceLength(bytes[i]) = 1 -> bytes[i]
          [] sequenceLength(bytes[i]) = 2 ->
               (bytes[i] - 192) * 64 + (bytes[i + 1] - 128)
          [] sequenceLength(bytes[i]) = 3 ->
               (bytes[i] - 224) * 4096 + (bytes[i + 1] - 128) * 64
                 + (bytes[i + 2] - 128)
          [] OTHER ->
               (bytes[i] - 240) * 262144 + (bytes[i + 1] - 128) * 4096
                 + (bytes[i + 2] - 128) * 64 + (bytes[i + 3] - 128)
  IN  concat([i \in 1 .. n |->
        IF sequenceLength(bytes[i]) > 0
        THEN IF complete(i) THEN codeUnits(codePoint(i))
             ELSE <<ReplacementCharacter>>
        ELSE IF isContinuation(bytes[i]) /\ covered(i) THEN <<>>
        ELSE <<ReplacementCharacter>>])

\* buf.toString("hex"): two digits, 0..15 each, per byte
RECURSIVE toHex(_)
toHex(bytes) ==
  IF bytes = <<>> THEN <<>>
  ELSE <<bytes[1] \div 16, bytes[1] % 16>> \o toHex(Tail(bytes))

\* Buffer.from(str, "hex")
RECURSIVE fromHex(_)
fromHex(hex) ==
  IF Len(hex) < 2 THEN <<>>
  ELSE <<hex[1] * 16 + hex[2]>> \o fromHex(SubSeq(hex, 3, Len(hex)))

\* the "=" of base64; the other characters are their values 0..63
Pad == 64

\* buf.toString("base64")
RECURSIVE toBase64(_)
toBase64(bytes) ==
  CASE Len(bytes) = 0 -> <<>>
    [] Len(bytes) = 1 -> <<bytes[1] \div 4, (bytes[1] % 4) * 16, Pad, Pad>>
    [] Len(bytes) = 2 -> <<bytes[1] \div 4, (bytes[1] % 4) * 16 + bytes[2] \div 16,
                           (bytes[2] % 16) * 4, Pad>>
    [] OTHER -> <<bytes[1] \div 4, (bytes[1] % 4) * 16 + bytes[2] \div 16,
                  (bytes[2] % 16) * 4 + bytes[3] \div 64, (bytes[3] % 64)>>
                  \o toBase64(SubSeq(bytes, 4, Len(bytes)))

\* Buffer.from(str, "base64")
RECURSIVE fromBase64(_)
fromBase64(str) ==
  IF Len(str) < 4 THEN <<>>
  ELSE LET b1 == str[1] * 4 + str[2] \div 16
           b2 == (str[2] % 16) * 16 + str[3] \div 4
           b3 == (str[3] % 4) * 64 + str[4]
       IN  IF str[3] = Pad THEN <<b1>>
           ELSE IF str[4] = Pad THEN <<b1, b2>>
           ELSE <<b1, b2, b3>> \o fromBase64(SubSeq(str, 5, Len(str)))

\* the key stream of the cipher under the key and the IV
keyStream(iv, i) == (iv[((i - 1) % IV_LENGTH) + 1] + getEncryptionKey + i) % 256

\* cipher.update(plainText, "utf8", "hex") + cipher.final("hex")
cipherUpdate(plainText, iv) ==
  LET bytes == utf8Encode(plainText)
  IN  toHex([i \in 1 .. Len(bytes) |-> (bytes[i] + keyStream(iv, i)) % 256])

RECURSIVE sumBytes(_)
sumBytes(bytes) == IF bytes = <<>> THEN 0 ELSE bytes[1] + sumBytes(Tail(bytes))

\* cipher.getAuthTag(): determined by key, IV and ciphertext
getAuthTag(iv, encrypted) ==
  [i \in 1 .. AUTH_TAG_LENGTH |->
     (sumBytes(encrypted) + Len(encrypted) + iv[i] + getEncryptionKey) % 256]

\* decipher.update(hex, "hex", "utf8") + decipher.final("utf8")
decipherUpdate(hex, iv) ==
  LET bytes == fromHex(hex)
  IN  utf8Decode([i \in 1 .. Len(bytes) |-> (bytes[i] - keyStream(iv, i) + 256) % 256])

\* iv is the name of the value randomBytes returns in this call
encryptPassword(plainText, iv) ==
  LET ivBytes == randomBytes(iv)
      encrypted == cipherUpdate(plainText, ivBytes)
      authTag == getAuthTag(ivBytes, fromHex(encrypted))
      combined == ivBytes \o authTag \o fromHex(encrypted)
  IN  toBase64(combined)

\* the tag lengths decipher.setAuthTag accepts for GCM when createDecipheriv
\* was given no authTagLength
validGCMTagLengths == {4, 8} \cup (12 .. 16)

\* subarray past the end of the Buffer gives what is there
subarray(buf, start, end) ==
  SubSeq(buf, start + 1, IF end < Len(buf) THEN end ELSE Len(buf))

\* createDecipheriv throws on an empty IV, setAuthTag on a tag of another
\* length, final when the tag is not the first bytes of the tag computed
decryptPassword(cipherText) ==
  LET combined == fromBase64(cipherText)
      iv == subarray(combined, 0, IV_LENGTH)
      authTag == subarray(combined, IV_LENGTH, IV_LENGTH + AUTH_TAG_LENGTH)
      encrypted == subarray(combined, IV_LENGTH + AUTH_TAG_LENGTH, Len(combined))
  IN  IF iv = <<>> THEN Thrown("Invalid initialization vector")
      ELSE IF Len(authTag) \notin validGCMTagLengths
      THEN Thrown("Invalid authentication tag length")
      ELSE IF authTag # SubSeq(getAuthTag(iv, encrypted), 1, Len(authTag))
      THEN Thrown("Unsupported state or unable to authenticate data")
      ELSE Returned(decipherUpdate(toHex(encrypted), iv))

----------------------------------------------------------------------------
(* lib/validations.ts *)

currencyValues == {"IDR", "USD"}
statusValues == {"active", "cancelled", "expired"}
subscriptionTypeValues == {"trial", "voucher", "subscription"}

\* An input object: `keys` is the set of properties that are defined; the other
\* fields hold the property's value (a filler of the right type when the
\* property is undefined).  A price is a number of thousandths; reminderDays
\* is the whole part of the number given and reminderDaysTenths its first
\* decimal, 0 for a whole number.
NoInput ==
  [keys |-> {}, name |-> "", url |-> "", subscriptionType |-> "", price |-> 0,
   currency |-> "", billingCycle |-> "", startDate |-> NoDate,
   nextPaymentDate |-> NoDate, reminderDays |-> 0, reminderDaysTenths |-> 0,
   paymentMethodProvider |-> "", paymentMethodNumber |-> <<>>,
   accountEmail |-> "", accountLoginMethod |-> "", accountPassword |-> "",
   notes |-> "", category |-> "", status |-> ""]

Has(input, key) == key \in input.keys

\* strings the url() and email() checks accept, among those the inputs use
WellFormedUrls == {"https://example.com"}
WellFormedEmails == {"me@example.com"}

Issue(path, violated) == IF violated THEN {path} ELSE {}

\* createSubscriptionIssues of a schema without the upper limits: no .max() on
\* name, reminderDays and notes
createSubscriptionIssuesNoMax(input) ==
       Issue("name", ~(Has(input, "name") /\ Len(input.name) >= 1))
  \cup Issue("url", Has(input, "url") /\ input.url # ""
                    /\ input.url \notin WellFormedUrls)
  \cup Issue("subscriptionType",
             Has(input, "subscriptionType")
             /\ input.subscriptionType \notin subscriptionTypeValues)
  \cup Issue("price", ~(Has(input, "price") /\ input.price > 0))
  \cup Issue("currency", ~(Has(input, "currency")
                           /\ input.currency \in currencyValues))
  \cup Issue("billingCycle", ~(Has(input, "billingCycle")
                               /\ input.billingCycle \in billingCycleValues))
  \cup Issue("startDate", ~Has(input, "startDate"))
  \cup Issue("reminderDays",
             Has(input, "reminderDays")
             /\ (input.reminderDaysTenths # 0 \/ input.reminderDays < 0))
  \cup Issue("accountEmail",
             Has(input, "accountEmail") /\ input.accountEmail # ""
             /\ input.accountEmail \notin WellFormedEmails)

\* the issues createSubscriptionSchema.safeParse reports, as the set of paths
createSubscriptionIssues(input) ==
       Issue("name", ~(Has(input, "name") /\ Len(input.name) >= 1
                                          /\ Len(input.name) <= 100))
  \cup Issue("url", Has(input, "url") /\ input.url # ""
                    /\ input.url \notin WellFormedUrls)
  \cup Issue("subscriptionType",
             Has(input, "subscriptionType")
             /\ input.subscriptionType \notin subscriptionTypeValues)
  \cup Issue("price", ~(Has(input, "price") /\ input.price > 0))
  \cup Issue("currency", ~(Has(input, "currency")
                           /\ input.currency \in currencyValues))
  \cup Issue("billingCycle", ~(Has(input, "billingCycle")
                               /\ input.billingCycle \in billingCycleValues))
  \cup Issue("startDate", ~Has(input, "startDate"))
  \cup Issue("reminderDays",
             Has(input, "reminderDays")
             /\ (\/ input.reminderDaysTenths # 0
                 \/ input.reminderDays < 0
                 \/ input.reminderDays > 30))
  \cup Issue("accountEmail",
             Has(input, "accountEmail") /\ input.accountEmail # ""
             /\ input.accountEmail \notin WellFormedEmails)
  \cup Issue("notes", Has(input, "notes") /\ Len(input.notes) > 500)

\* updateSubscriptionSchema = createSubscriptionSchema.partial().extend({status}):
\* a missing property is no issue, a present one is checked as on creation
updateSubscriptionIssues(input) ==
       (createSubscriptionIssues(input) \cap input.keys)
  \cup Issue("status", Has(input, "status") /\ input.status \notin statusValues)

\* the parsed data: reminderDays carries .default(3), which the parser applies
\* when the property is missing (also through .partial())
withDefaults(input) ==
  IF Has(input, "reminderDays") THEN input
  ELSE [input EXCEPT !.keys = @ \cup {"reminderDays"}, !.reminderDays = 3]

----------------------------------------------------------------------------
(* State *)

VARIABLES
  subscriptions,  \* the subscriptions table: id -> row
  nextId,         \* the ids defaultRandom() has handed out are 1 .. nextId - 1
  response,       \* what the last server action returned
  tz,             \* the process's UTC offset, in hours
  dArg,           \* date-utils check: the Date argument
  cArg,           \* date-utils check: the billing-cycle argument
  calcRet,        \* date-utils check: outcome of calculateNextPaymentDate
  advRet,         \* date-utils check: outcome of advancePaymentDate
  now,            \* the system clock: the Date `new Date()` gives
  args,           \* library call: the arguments, a record
  ret,            \* library call: function name -> what it returned
  paymentMethods, \* the payment_methods table: id -> row
  accountCredentials, \* the account_credentials table: id -> row
  ui,             \* the browser's theme: the ui store, its persisted copy, the page
  cache,          \* the browser's query for the user's list: its data, its fetch
  mutations,      \* the browser's mutations, in the order they were started
  customCategories, \* the custom_categories table: its rows in insertion order
  seeds           \* the calls that seed default categories: process -> its position

\* the clock and the library call, which the server actions leave alone
calls == <<now, args, ret>>

\* the browser's state, which the server actions and the library leave alone
client == <<ui, cache, mutations>>

\* the categories, which the subscription actions and the library leave alone
seeding == <<customCategories, seeds>>

vars == <<subscriptions, nextId, response, accountCredentials, client, seeding, tz, dArg, cArg, calcRet, advRet,
          calls, paymentMethods>>

\* number of rows the runs insert (ids are never reused)
MaxSubs == 2

Users == {"user_1", "user_2"}
Ids == 1 .. MaxSubs

\* a nullable column: <<>> is null, <<v>> holds v
Null == <<>>
OrNull(input, key, value) ==
  IF Has(input, key) /\ value # "" THEN <<value>> ELSE Null

\* the ui store as create() builds it, nothing persisted, the page unstyled
initialUIState ==
  [theme |-> "system", storage |-> Null, matches |-> FALSE, classList |-> {},
   hydrated |-> FALSE]

\* a query that holds no data and fetches nothing
NoQuery == [data |-> Null, fetch |-> [state |-> "idle", data |-> <<>>]]

\* a browser in which nothing has run yet
ClientAtLoad == ui = initialUIState /\ cache = NoQuery /\ mutations = <<>>

\* no category stored, no call under way
NoSeeding == customCategories = <<>> /\ seeds = <<>>

\* price.toString() stored in numeric(10, 2): thousandths rounded to cents
numeric(thousandths) == (thousandths + 5) \div 10

\* an ActionResult, with the action that returned it; id is the id of the row
\* in its data, NoData when it has none
NoData == 0

NoResponse ==
  [op |-> "", id |-> NoData, success |-> FALSE, error |-> "",
   validationErrors |-> {}]

NotCalled == [thrown |-> FALSE, value |-> NoDate, error |-> "not called"]

----------------------------------------------------------------------------
(* Inputs of the runs *)

Jan31 == [y |-> 2024, m |-> 1, d |-> 31, h |-> 0]
Feb29 == [y |-> 2024, m |-> 2, d |-> 29, h |-> 0]
Feb29Evening == [y |-> 2024, m |-> 2, d |-> 29, h |-> 17]

inMonthly ==
  [NoInput EXCEPT
     !.keys = {"name", "price", "currency", "billingCycle", "startDate"},
     !.name = "Netflix", !.price = 9990, !.currency = "USD",
     !.billingCycle = "monthly", !.startDate = Jan31]

inTrial ==
  [NoInput EXCEPT
     !.keys = {"name", "subscriptionType", "price", "currency", "billingCycle",
               "startDate", "nextPaymentDate", "reminderDays"},
     !.name = "Canva", !.subscriptionType = "trial", !.price = 15000,
     !.currency = "IDR", !.billingCycle = "trial", !.startDate = Jan31,
     !.nextPaymentDate = Feb29, !.reminderDays = 7]

inNoName == [inMonthly EXCEPT !.name = ""]

CreateInputs == {inMonthly, inTrial, inNoName}

upCycleTrial ==
  [NoInput EXCEPT !.keys = {"billingCycle"}, !.billingCycle = "trial"]
upStart ==
  [NoInput EXCEPT !.keys = {"startDate"}, !.startDate = Feb29Evening]
upNextPayment ==
  [NoInput EXCEPT !.keys = {"nextPaymentDate"}, !.nextPaymentDate = Feb29]
upNoPrice == [NoInput EXCEPT !.keys = {"price"}, !.price = 0]

UpdateInputs == {upCycleTrial, upStart, upNextPayment, upNoPrice}

----------------------------------------------------------------------------
(* actions/subscriptions.ts *)

Failure(op, error, issues) ==
  [op |-> op, id |-> NoData, success |-> FALSE, error |-> error,
   validationErrors |-> issues]

Success(op, id) ==
  [op |-> op, id |-> id, success |-> TRUE, error |-> "",
   validationErrors |-> {}]

\* the id column's defaultRandom(): an id no row has ever had
defaultRandom == nextId

\* newRow that leaves the currency to the column's default, "IDR"
newRowDefaultCurrency(id, userId, data, nextPaymentDate, iv) ==
  [id |-> id,
   userId |-> userId,
   name |-> data.name,
   subscriptionType |->
     IF Has(data, "subscriptionType") THEN data.subscriptionType ELSE "trial",
   price |-> numeric(data.price),
   currency |-> "IDR",
   billingCycle |-> data.billingCycle,
   startDate |-> toISODateString(data.startDate, tz),
   nextPaymentDate |-> toISODateString(nextPaymentDate, tz),
   reminderDays |-> data.reminderDays,
   paymentMethodProvider |->
     OrNull(data, "paymentMethodProvider", data.paymentMethodProvider),
   paymentMethodNumber |->
     IF Has(data, "paymentMethodNumber") /\ data.paymentMethodNumber # <<>>
     THEN <<maskPaymentMethod(data.paymentMethodNumber)>> ELSE Null,
   accountEmail |-> OrNull(data, "accountEmail", data.accountEmail),
   accountLoginMethod |->
     OrNull(data, "accountLoginMethod", data.accountLoginMethod),
   accountPasswordEncrypted |->
     IF Has(data, "accountPassword") /\ data.accountPassword # ""
     THEN <<encryptPassword(data.accountPassword, iv)>> ELSE Null,
   notes |-> OrNull(data, "notes", data.notes),
   category |-> OrNull(data, "category", data.category),
   url |-> OrNull(data, "url", data.url),
   status |-> "active"]

\* newRow that stores "subscription" for data without a subscriptionType
newRowDefaultSubscription(id, userId, data, nextPaymentDate, iv) ==
  [id |-> id,
   userId |-> userId,
   name |-> data.name,
   subscriptionType |->
     IF Has(data, "subscriptionType") THEN data.subscriptionType
     ELSE "subscription",
   price |-> numeric(data.price),
   currency |-> data.currency,
   billingCycle |-> data.billingCycle,
   startDate |-> toISODateString(data.startDate, tz),
   nextPaymentDate |-> toISODateString(nextPaymentDate, tz),
   reminderDays |-> data.reminderDays,
   paymentMethodProvider |->
     OrNull(data, "paymentMethodProvider", data.paymentMethodProvider),
   paymentMethodNumber |->
     IF Has(data, "paymentMethodNumber") /\ data.paymentMethodNumber # <<>>
     THEN <<maskPaymentMethod(data.paymentMethodNumber)>> ELSE Null,
   accountEmail |-> OrNull(data, "accountEmail", data.accountEmail),
   accountLoginMethod |->
     OrNull(data, "accountLoginMethod", data.accountLoginMethod),
   accountPasswordEncrypted |->
     IF Has(data, "accountPassword") /\ data.accountPassword # ""
     THEN <<encryptPassword(data.accountPassword, iv)>> ELSE Null,
   notes |-> OrNull(data, "notes", data.notes),
   category |-> OrNull(data, "category", data.category),
   url |-> OrNull(data, "url", data.url),
   status |-> "active"]

\* the row createSubscription inserts for the parsed data
newRow(id, userId, data, nextPaymentDate, iv) ==
  [id |-> id,
   userId |-> userId,
   name |-> data.name,
   subscriptionType |->
     IF Has(data, "subscriptionType") THEN data.subscriptionType ELSE "trial",
   price |-> numeric(data.price),
   currency |-> data.currency,
   billingCycle |-> data.billingCycle,
   startDate |-> toISODateString(data.startDate, tz),
   nextPaymentDate |-> toISODateString(nextPaymentDate, tz),
   reminderDays |-> data.reminderDays,
   paymentMethodProvider |->
     OrNull(data, "paymentMethodProvider", data.paymentMethodProvider),
   paymentMethodNumber |->
     IF Has(data, "paymentMethodNumber") /\ data.paymentMethodNumber # <<>>
     THEN <<maskPaymentMethod(data.paymentMethodNumber)>> ELSE Null,
   accountEmail |-> OrNull(data, "accountEmail", data.accountEmail),
   accountLoginMethod |->
     OrNull(data, "accountLoginMethod", data.accountLoginMethod),
   accountPasswordEncrypted |->
     IF Has(data, "accountPassword") /\ data.accountPassword # ""
     THEN <<encryptPassword(data.accountPassword, iv)>> ELSE Null,
   notes |-> OrNull(data, "notes", data.notes),
   category |-> OrNull(data, "category", data.category),
   url |-> OrNull(data, "url", data.url),
   status |-> "active"]

createSubscription(userId, input) ==
  LET issues == createSubscriptionIssues(input)
      data   == withDefaults(input)
      next   == IF Has(data, "nextPaymentDate")
                THEN Returned(data.nextPaymentDate)
                ELSE calculateNextPaymentDate(data.startDate, data.billingCycle)
  IN  /\ nextId <= MaxSubs
      /\ IF issues # {}
         THEN /\ response' = Failure("createSubscription", "Validation failed", issues)
              /\ UNCHANGED <<subscriptions, nextId>>
         ELSE IF next.thrown
         THEN /\ response' = Failure("createSubscription", "Failed to create subscription", {})
              /\ UNCHANGED <<subscriptions, nextId>>
         ELSE \E iv \in (IF Has(data, "accountPassword")
                            /\ data.accountPassword # ""
                         THEN IVs ELSE {"iv1"}) :
                LET id == defaultRandom
                IN  /\ response' = Success("createSubscription", id)
                    /\ nextId' = nextId + 1
                    /\ subscriptions' =
                         (id :> newRow(id, userId, data, next.value, iv))
                         @@ subscriptions
      /\ UNCHANGED <<accountCredentials, client, seeding, tz, dArg, cArg, calcRet, advRet, calls,
                     paymentMethods>>

\* the rows `where id = subscriptionId and user_id = userId` selects
owned(userId, subscriptionId) ==
  {id \in DOMAIN subscriptions :
     id = subscriptionId /\ subscriptions[id].userId = userId}

\* updatedNextPaymentDate without the fallback: a new startDate leaves the
\* nextPaymentDate column alone
updatedNextPaymentDateNoFallback(existing, data) ==
  IF Has(data, "nextPaymentDate")
  THEN toISODateString(data.nextPaymentDate, tz)
  ELSE existing.nextPaymentDate

\* "Handle start date and next payment date": the nextPaymentDate column after
\* an update; a provided date is used directly, a new startDate without one
\* recomputes from the billing cycle, anything else leaves the column alone
updatedNextPaymentDate(existing, data) ==
  LET billingCycle == IF Has(data, "billingCycle") THEN data.billingCycle
                      ELSE existing.billingCycle
  IN  IF Has(data, "nextPaymentDate")
      THEN toISODateString(data.nextPaymentDate, tz)
      ELSE IF Has(data, "startDate")
      THEN toISODateString(
             calculateNextPaymentDate(data.startDate, billingCycle).value, tz)
      ELSE existing.nextPaymentDate

\* the row after .set(updateData): every column updateData names is replaced
updatedRow(existing, data, iv) ==
      [existing EXCEPT
         !.name = IF Has(data, "name") THEN data.name ELSE @,
         !.subscriptionType =
            IF Has(data, "subscriptionType") THEN data.subscriptionType ELSE @,
         !.price = IF Has(data, "price") THEN numeric(data.price) ELSE @,
         !.currency = IF Has(data, "currency") THEN data.currency ELSE @,
         !.billingCycle =
            IF Has(data, "billingCycle") THEN data.billingCycle ELSE @,
         !.reminderDays =
            IF Has(data, "reminderDays") THEN data.reminderDays ELSE @,
         !.paymentMethodProvider =
            IF Has(data, "paymentMethodProvider")
            THEN OrNull(data, "paymentMethodProvider", data.paymentMethodProvider)
            ELSE @,
         !.accountEmail =
            IF Has(data, "accountEmail")
            THEN OrNull(data, "accountEmail", data.accountEmail) ELSE @,
         !.accountLoginMethod =
            IF Has(data, "accountLoginMethod")
            THEN OrNull(data, "accountLoginMethod", data.accountLoginMethod)
            ELSE @,
         !.notes = IF Has(data, "notes") THEN OrNull(data, "notes", data.notes)
                   ELSE @,
         !.category =
            IF Has(data, "category") THEN OrNull(data, "category", data.category)
            ELSE @,
         !.url = IF Has(data, "url") THEN OrNull(data, "url", data.url) ELSE @,
         !.status = IF Has(data, "status") THEN data.status ELSE @,
         !.startDate =
            IF Has(data, "startDate") THEN toISODateString(data.startDate, tz)
            ELSE @,
         !.nextPaymentDate = updatedNextPaymentDate(existing, data),
         !.paymentMethodNumber =
            IF Has(data, "paymentMethodNumber")
            THEN (IF data.paymentMethodNumber # <<>>
                  THEN <<maskPaymentMethod(data.paymentMethodNumber)>>
                  ELSE Null)
            ELSE @,
         !.accountPasswordEncrypted =
            IF Has(data, "accountPassword")
            THEN (IF data.accountPassword # ""
                  THEN <<encryptPassword(data.accountPassword, iv)>>
                  ELSE Null)
            ELSE @]

\* whether building updateData throws (calculateNextPaymentDate on a tag it
\* does not know), which the catch turns into "Failed to update subscription"
updateThrows(existing, data) ==
  /\ ~Has(data, "nextPaymentDate")
  /\ Has(data, "startDate")
  /\ calculateNextPaymentDate(
        data.startDate,
        IF Has(data, "billingCycle") THEN data.billingCycle
        ELSE existing.billingCycle).thrown

\* updateSubscription that selects the row by id alone and writes the caller
\* into user_id
updateSubscriptionTakeover(userId, subscriptionId, input) ==
  LET issues   == updateSubscriptionIssues(input)
      data     == withDefaults(input)
      existing == {id \in DOMAIN subscriptions : id = subscriptionId}
  IN  /\ IF issues # {}
         THEN /\ response' = Failure("updateSubscription", "Validation failed", issues)
              /\ UNCHANGED subscriptions
         ELSE IF existing = {}
         THEN /\ response' = Failure("updateSubscription", "Subscription not found", {})
              /\ UNCHANGED subscriptions
         ELSE /\ response' = Success("updateSubscription", subscriptionId)
              /\ subscriptions' =
                   [id \in DOMAIN subscriptions |->
                      IF id \in existing
                      THEN [updatedRow(subscriptions[id], data, "iv1")
                              EXCEPT !.userId = userId]
                      ELSE subscriptions[id]]
      /\ UNCHANGED <<nextId, accountCredentials, client, seeding, tz, dArg, cArg, calcRet, advRet, calls,
                     paymentMethods>>

updateSubscription(userId, subscriptionId, input) ==
  LET issues   == updateSubscriptionIssues(input)
      data     == withDefaults(input)
      existing == owned(userId, subscriptionId)
  IN  /\ IF issues # {}
         THEN /\ response' = Failure("updateSubscription", "Validation failed", issues)
              /\ UNCHANGED subscriptions
         ELSE IF existing = {}
         THEN /\ response' = Failure("updateSubscription", "Subscription not found", {})
              /\ UNCHANGED subscriptions
         ELSE IF updateThrows(subscriptions[subscriptionId], data)
         THEN /\ response' = Failure("updateSubscription", "Failed to update subscription", {})
              /\ UNCHANGED subscriptions
         ELSE \E iv \in (IF Has(data, "accountPassword")
                            /\ data.accountPassword # ""
                         THEN IVs ELSE {"iv1"}) :
                /\ response' = Success("updateSubscription", subscriptionId)
                /\ subscriptions' =
                     [id \in DOMAIN subscriptions |->
                        IF id \in existing
                        THEN updatedRow(subscriptions[id], data, iv)
                        ELSE subscriptions[id]]
      /\ UNCHANGED <<nextId, accountCredentials, client, seeding, tz, dArg, cArg, calcRet, advRet, calls,
                     paymentMethods>>

\* deleteSubscription whose where clause is the id alone
deleteSubscriptionAnyOwner(userId, subscriptionId) ==
  LET result == {id \in DOMAIN subscriptions : id = subscriptionId}
  IN  /\ response' =
           IF result = {}
           THEN Failure("deleteSubscription", "Subscription not found", {})
           ELSE Success("deleteSubscription", NoData)
      /\ subscriptions' =
           [id \in DOMAIN subscriptions \ result |-> subscriptions[id]]
      /\ UNCHANGED <<nextId, accountCredentials, client, seeding, tz, dArg, cArg, calcRet, advRet, calls,
                     paymentMethods>>

\* deleteSubscription that marks the row cancelled instead of removing it
deleteSubscriptionSoft(userId, subscriptionId) ==
  LET result == owned(userId, subscriptionId)
  IN  /\ response' =
           IF result = {}
           THEN Failure("deleteSubscription", "Subscription not found", {})
           ELSE Success("deleteSubscription", NoData)
      /\ subscriptions' =
           [id \in DOMAIN subscriptions |->
              IF id \in result
              THEN [subscriptions[id] EXCEPT !.status = "cancelled"]
              ELSE subscriptions[id]]
      /\ UNCHANGED <<nextId, accountCredentials, client, seeding, tz, dArg, cArg, calcRet, advRet, calls,
                     paymentMethods>>

deleteSubscription(userId, subscriptionId) ==
  LET result == owned(userId, subscriptionId)
  IN  /\ response' =
           IF result = {}
           THEN Failure("deleteSubscription", "Subscription not found", {})
           ELSE Success("deleteSubscription", NoData)
      /\ subscriptions' =
           [id \in DOMAIN subscriptions \ result |-> subscriptions[id]]
      /\ UNCHANGED <<nextId, accountCredentials, client, seeding, tz, dArg, cArg, calcRet, advRet, calls,
                     paymentMethods>>

\* getSubscriptions: the caller's rows, ordered by nextPaymentDate (rows with
\* the same date in id order)
getSubscriptions(userId) ==
  LET mine == {id \in DOMAIN subscriptions : subscriptions[id].userId = userId}
      Before(a, b) ==
        LET da == subscriptions[a].nextPaymentDate
            db == subscriptions[b].nextPaymentDate
        IN  IF da = db THEN a <= b ELSE DateStrLeq(da, db)
      order == CHOOSE f \in [1 .. Cardinality(mine) -> mine] :
                 /\ \A i, j \in DOMAIN f : i # j => f[i] # f[j]
                 /\ \A i, j \in DOMAIN f : i < j => Before(f[i], f[j])
  IN  [i \in 1 .. Cardinality(mine) |-> subscriptions[order[i]]]

\* getSubscriptionById that selects by id alone
getSubscriptionByIdAnyOwner(userId, subscriptionId) ==
  IF subscriptionId \in DOMAIN subscriptions
  THEN <<subscriptions[subscriptionId]>> ELSE Null

\* getSubscriptionById: <<row>>, or <<>> for the null it returns
getSubscriptionById(userId, subscriptionId) ==
  LET found == owned(userId, subscriptionId)
  IN  IF found = {} THEN Null ELSE <<subscriptions[subscriptionId]>>

----------------------------------------------------------------------------
(* The server actions, called by any user in any order *)

Init ==
  /\ subscriptions = <<>>
  /\ paymentMethods = <<>>
  /\ nextId = 1
  /\ response = NoResponse
  /\ tz \in TzOffsets
  /\ ClientAtLoad
  /\ NoSeeding
  /\ accountCredentials = <<>>
  /\ dArg = NoDate
  /\ cArg = ""
  /\ calcRet = NotCalled
  /\ advRet = NotCalled
  /\ now = NoDate
  /\ args = <<>>
  /\ ret = <<>>

CreateSubscription == \E u \in Users, input \in CreateInputs :
                        createSubscription(u, input)
UpdateSubscription == \E u \in Users, id \in Ids, input \in UpdateInputs :
                        updateSubscription(u, id, input)
DeleteSubscription == \E u \in Users, id \in Ids : deleteSubscription(u, id)

Next == CreateSubscription \/ UpdateSubscription \/ DeleteSubscription

Spec == Init /\ [][Next]_vars

----------------------------------------------------------------------------
(* lib/date-utils.ts applied to every Date and billing-cycle tag *)

\* the Dates of the calendar years MinYear .. MaxYear
DateInputs ==
  {date \in [y : MinYear .. MaxYear, m : 1 .. 12, d : 1 .. 31, h : Hours] :
     CivilFromDays(DaysFromCivil(date.y, date.m, date.d))
       = [y |-> date.y, m |-> date.m, d |-> date.d]}

InitDates ==
  /\ subscriptions = <<>>
  /\ paymentMethods = <<>>
  /\ nextId = 1
  /\ response = NoResponse
  /\ tz = 0
  /\ ClientAtLoad
  /\ NoSeeding
  /\ accountCredentials = <<>>
  /\ dArg \in DateInputs
  /\ cArg \in billingCycleValues \cup UnknownCycles
  /\ calcRet = NotCalled
  /\ advRet = NotCalled
  /\ now = NoDate
  /\ args = <<>>
  /\ ret = <<>>

CallCalculateNextPaymentDate ==
  /\ calcRet = NotCalled
  /\ calcRet' = calculateNextPaymentDate(dArg, cArg)
  /\ UNCHANGED <<subscriptions, paymentMethods, nextId, response, accountCredentials, client, seeding, tz, dArg, cArg, advRet, calls>>

CallAdvancePaymentDate ==
  /\ advRet = NotCalled
  /\ advRet' = advancePaymentDate(dArg, cArg)
  /\ UNCHANGED <<subscriptions, paymentMethods, nextId, response, accountCredentials, client, seeding, tz, dArg, cArg, calcRet, calls>>

NextDates == CallCalculateNextPaymentDate \/ CallAdvancePaymentDate

SpecDates == InitDates /\ [][NextDates]_vars

----------------------------------------------------------------------------
(* Properties of lib/date-utils.ts, under SpecDates *)

\* the calendar, stated apart from the Date engine
IsLeapYear(y) == (y % 4 = 0 /\ y % 100 # 0) \/ y % 400 = 0

LastDayOfMonth(y, m) ==
  IF m = 2 THEN (IF IsLeapYear(y) THEN 29 ELSE 28)
  ELSE IF m \in {4, 6, 9, 11} THEN 30 ELSE 31

Min(a, b) == IF a <= b THEN a ELSE b

\* one calendar month after `date`, the day clamped to the target month's last
PlusOneMonth(date) ==
  LET ty == IF date.m = 12 THEN date.y + 1 ELSE date.y
      tm == IF date.m = 12 THEN 1 ELSE date.m + 1
  IN  [y |-> ty, m |-> tm, d |-> Min(date.d, LastDayOfMonth(ty, tm)),
       h |-> date.h]

\* one calendar year after `date`, Feb 29 clamped to Feb 28
PlusOneYear(date) ==
  [y |-> date.y + 1, m |-> date.m,
   d |-> Min(date.d, LastDayOfMonth(date.y + 1, date.m)), h |-> date.h]

\* C8: calculateNextPaymentDate(d, monthly) is d plus one calendar month with
\* the day clamped to the last day of the target month, (d, yearly) is d plus
\* one calendar year with Feb 29 clamped to Feb 28, and (d, one-time) and
\* (d, trial) are d itself.
C8_CycleAdvance ==
  calcRet # NotCalled =>
    /\ cArg = "monthly" => calcRet = Returned(PlusOneMonth(dArg))
    /\ cArg = "yearly" => calcRet = Returned(PlusOneYear(dArg))
    /\ cArg \in {"one-time", "trial"} => calcRet = Returned(dArg)

\* C8 witness: Jan 31 2024, monthly, has given Feb 29 2024
C8_Witness ==
  /\ cArg = "monthly"
  /\ dArg = [y |-> 2024, m |-> 1, d |-> 31, h |-> 0]
  /\ calcRet = Returned([y |-> 2024, m |-> 2, d |-> 29, h |-> 0])

\* C9: advancePaymentDate(d, c) equals calculateNextPaymentDate(d, c) for every
\* Date d and cycle c, and for one-time and trial it returns d unchanged.
C9_AdvanceSameDelta ==
  /\ (calcRet # NotCalled /\ advRet # NotCalled) => advRet = calcRet
  /\ (advRet # NotCalled /\ cArg \in {"one-time", "trial"})
       => advRet = Returned(dArg)

\* C9 witness: both were called on a trial and both returned the Date unchanged
C9_Witness ==
  /\ cArg = "trial"
  /\ calcRet = Returned(dArg)
  /\ advRet = Returned(dArg)

\* C10: given a tag outside the four billing cycles, calculateNextPaymentDate
\* and advancePaymentDate throw and return no Date.
C10_UnknownCycleThrows ==
  cArg \notin billingCycleValues =>
    /\ calcRet # NotCalled => (calcRet.thrown /\ calcRet.value = NoDate)
    /\ advRet # NotCalled => (advRet.thrown /\ advRet.value = NoDate)

\* C10 witness: both were called with the tag "weekly" and both threw
C10_Witness ==
  /\ cArg = "weekly"
  /\ calcRet = Thrown("Unknown billing cycle")
  /\ advRet = Thrown("Unknown billing cycle")

----------------------------------------------------------------------------
(* Properties of the server actions, under Spec *)

\* C1: getSubscriptions(u) returns only rows whose userId is u, and
\* getSubscriptionById(u, id) returns the row when its userId is u and null
\* when the row belongs to another user (or does not exist).
C1_ReadIsolation ==
  \A u \in Users :
    /\ \A i \in DOMAIN getSubscriptions(u) : getSubscriptions(u)[i].userId = u
    /\ \A id \in Ids :
         getSubscriptionById(u, id) =
           IF id \in DOMAIN subscriptions /\ subscriptions[id].userId = u
           THEN <<subscriptions[id]>> ELSE Null

\* C1 witness: both users own a row; each list holds its owner's row alone and
\* user_2 gets null for user_1's row
C1_Witness ==
  \E a, b \in DOMAIN subscriptions :
    /\ subscriptions[a].userId = "user_1"
    /\ subscriptions[b].userId = "user_2"
    /\ Len(getSubscriptions("user_1")) = 1
    /\ Len(getSubscriptions("user_2")) = 1
    /\ getSubscriptionById("user_2", a) = Null
    /\ getSubscriptionById("user_1", a) # Null

\* C2: deleteSubscription by a user who does not own the row returns
\* success = false with "Subscription not found" and leaves the row in place:
\* the owner's getSubscriptionById still returns it.
C2_DeleteByNonOwner ==
  [][\A u \in Users, id \in Ids :
       (/\ id \in DOMAIN subscriptions
        /\ subscriptions[id].userId # u
        /\ response'.op = "deleteSubscription"
        /\ deleteSubscription(u, id))
       => /\ response' = Failure("deleteSubscription", "Subscription not found", {})
          /\ getSubscriptionById(subscriptions[id].userId, id)'
               = <<subscriptions[id]>>]_vars

\* C2 witness: every id is stored and is user_1's, and a delete was refused:
\* it was user_2's, of a row that is still there
C2_Witness ==
  /\ response = Failure("deleteSubscription", "Subscription not found", {})
  /\ DOMAIN subscriptions = Ids
  /\ \A id \in Ids : subscriptions[id].userId = "user_1"

\* C3: after deleteSubscription by the owner returns success = true the row is
\* absent from the table and getSubscriptionById returns null for that id to
\* every user; and an id that was handed out and is absent stays absent.
C3_DeletionComplete ==
  [][/\ \A u \in Users, id \in Ids :
          (/\ id \in DOMAIN subscriptions
           /\ subscriptions[id].userId = u
           /\ response'.op = "deleteSubscription"
           /\ deleteSubscription(u, id))
          => /\ response' = Success("deleteSubscription", NoData)
             /\ id \notin DOMAIN subscriptions'
             /\ \A v \in Users : getSubscriptionById(v, id)' = Null
     /\ \A id \in Ids :
          (id < nextId /\ id \notin DOMAIN subscriptions)
          => /\ id \notin DOMAIN subscriptions'
             /\ \A v \in Users : getSubscriptionById(v, id)' = Null]_vars

\* C3 witness: row 1 was deleted, and a row was created after that
C3_Witness ==
  /\ 1 \notin DOMAIN subscriptions
  /\ nextId > 2
  /\ response = Success("createSubscription", 2)

\* C4: createSubscription(u, input) with a valid input succeeds and stores
\* exactly one new row, whose userId is u, whose status is active, whose id
\* differs from the id of every other row, and whose name, currency and
\* billingCycle are the input's.
C4_CreationIntegrity ==
  [][\A u \in Users, input \in CreateInputs :
       (/\ response'.op = "createSubscription"
        /\ createSubscriptionIssues(input) = {}
        /\ createSubscription(u, input))
       => /\ response'.op = "createSubscription"
          /\ response'.success
          /\ LET id == response'.id
             IN  /\ id \notin DOMAIN subscriptions
                 /\ DOMAIN subscriptions' = DOMAIN subscriptions \cup {id}
                 /\ \A j \in DOMAIN subscriptions :
                      /\ subscriptions'[j] = subscriptions[j]
                      /\ subscriptions'[j].id # subscriptions'[id].id
                 /\ subscriptions'[id].id = id
                 /\ subscriptions'[id].userId = u
                 /\ subscriptions'[id].status = "active"
                 /\ subscriptions'[id].name = input.name
                 /\ subscriptions'[id].currency = input.currency
                 /\ subscriptions'[id].billingCycle = input.billingCycle]_vars

\* C4 witness: a second row was created next to a stored one, in US dollars
C4_Witness ==
  /\ response = Success("createSubscription", 2)
  /\ DOMAIN subscriptions = {1, 2}
  /\ subscriptions[2].currency = "USD"

\* C5: no step changes the userId or the id of a stored row; an update, by any
\* user with any input, leaves both as they were at creation.
C5_OwnerImmutable ==
  [][\A id \in DOMAIN subscriptions \cap DOMAIN subscriptions' :
       /\ subscriptions'[id].userId = subscriptions[id].userId
       /\ subscriptions'[id].id = subscriptions[id].id
       /\ subscriptions'[id].id = id]_vars

\* C5 witness: user_1's row was updated (Netflix is a trial now) and user_2's
\* update of it was refused
C5_Witness ==
  /\ response = Failure("updateSubscription", "Subscription not found", {})
  /\ DOMAIN subscriptions = Ids
  /\ \A id \in Ids : subscriptions[id].userId = "user_1"
  /\ subscriptions[1].name = "Netflix"
  /\ subscriptions[1].billingCycle = "trial"

\* nextPaymentDate >= startDate, with equality for one-time and trial
DatesInOrder(row) ==
  /\ DateStrLeq(row.startDate, row.nextPaymentDate)
  /\ row.billingCycle \in {"one-time", "trial"}
       => row.nextPaymentDate = row.startDate

C7_RecomputeOnChange ==
  [][\A u \in Users, id \in Ids, input \in UpdateInputs :
       (/\ ~Has(input, "nextPaymentDate")
        /\ Has(input, "startDate") \/ Has(input, "billingCycle")
        /\ response' = Success("updateSubscription", id)
        /\ updateSubscription(u, id, input))
       => subscriptions'[id].nextPaymentDate =
            toISODateString(
              calculateNextPaymentDate(
                newDate(subscriptions'[id].startDate, tz),
                subscriptions'[id].billingCycle).value, tz)]_vars

----------------------------------------------------------------------------
(* lib/date-utils.ts: isWithinReminderDays, against the system clock *)

MaxReminderDays == 3

\* date.setHours(0, 0, 0, 0)
setHours0(date) == [date EXCEPT !.h = 0]

\* date-fns compareLocalAsc: the sign of dateLeft - dateRight, field by field
compareLocalAsc(dateLeft, dateRight) ==
  LET diff == IF dateLeft.y # dateRight.y THEN dateLeft.y - dateRight.y
              ELSE IF dateLeft.m # dateRight.m THEN dateLeft.m - dateRight.m
              ELSE IF dateLeft.d # dateRight.d THEN dateLeft.d - dateRight.d
              ELSE dateLeft.h - dateRight.h
  IN  IF diff < 0 THEN -1 ELSE IF diff > 0 THEN 1 ELSE 0

\* date-fns differenceInCalendarDays: days between the two local midnights
differenceInCalendarDays(dateLeft, dateRight) ==
  DaysFromCivil(dateLeft.y, dateLeft.m, dateLeft.d)
    - DaysFromCivil(dateRight.y, dateRight.m, dateRight.d)

\* date-fns differenceInDays: full days between the two Dates, toward zero
differenceInDays(dateLeft, dateRight) ==
  LET sign == compareLocalAsc(dateLeft, dateRight)
      cal  == differenceInCalendarDays(dateLeft, dateRight)
      difference == IF cal < 0 THEN -cal ELSE cal
      moved == setFullYear(dateLeft.y, dateLeft.m - 1,
                           dateLeft.d - sign * difference, dateLeft.h)
      isLastDayNotFull ==
        IF compareLocalAsc(moved, dateRight) = -sign THEN 1 ELSE 0
  IN  sign * (difference - isLastDayNotFull)

\* isWithinReminderDays that leaves the time of day on both Dates
isWithinReminderDaysNoStrip(nextPaymentDate, reminderDays) ==
  LET daysUntilPayment == differenceInDays(nextPaymentDate, now)
  IN  daysUntilPayment >= 0 /\ daysUntilPayment <= reminderDays

isWithinReminderDays(nextPaymentDate, reminderDays) ==
  LET today == setHours0(now)
      paymentDate == setHours0(nextPaymentDate)
      daysUntilPayment == differenceInDays(paymentDate, today)
  IN  daysUntilPayment >= 0 /\ daysUntilPayment <= reminderDays

\* the clock: the last days of February of MaxYear, morning and evening
NowInputs == {date \in DateInputs : date.y = MaxYear /\ date.m = 2 /\ date.d >= 27}

\* the Dates up to MaxReminderDays + 2 days before or after `date`
Near(date) ==
  {other \in DateInputs :
     LET k == differenceInCalendarDays(other, date)
     IN  k >= -(MaxReminderDays + 2) /\ k <= MaxReminderDays + 2}

InitReminder ==
  /\ subscriptions = <<>>
  /\ paymentMethods = <<>>
  /\ nextId = 1
  /\ response = NoResponse
  /\ tz = 0
  /\ ClientAtLoad
  /\ NoSeeding
  /\ accountCredentials = <<>>
  /\ dArg = NoDate
  /\ cArg = ""
  /\ calcRet = NotCalled
  /\ advRet = NotCalled
  /\ now \in NowInputs
  /\ args \in {[nextPaymentDate |-> date, reminderDays |-> n] :
                 date \in Near(now), n \in 0 .. MaxReminderDays}
  /\ ret = <<>>

CallIsWithinReminderDays ==
  /\ "isWithinReminderDays" \notin DOMAIN ret
  /\ ret' = ret @@ ("isWithinReminderDays" :>
                      isWithinReminderDays(args.nextPaymentDate,
                                           args.reminderDays))
  /\ UNCHANGED <<subscriptions, paymentMethods, nextId, response, accountCredentials, client, seeding, tz, dArg, cArg, calcRet,
                 advRet, now, args>>

NextReminder == CallIsWithinReminderDays

SpecReminder == InitReminder /\ [][NextReminder]_vars

\* whole calendar days from today to the payment date
DaysUntil(date) ==
  DaysFromCivil(date.y, date.m, date.d) - DaysFromCivil(now.y, now.m, now.d)

\* C11: isWithinReminderDays(nextPaymentDate, n) is true if and only if the
\* whole-calendar-day difference k = nextPaymentDate - today satisfies
\* 0 <= k <= n, whatever the time of day of either Date.
C11_ReminderWindow ==
  "isWithinReminderDays" \in DOMAIN ret =>
    (ret["isWithinReminderDays"]
       <=> (/\ 0 <= DaysUntil(args.nextPaymentDate)
            /\ DaysUntil(args.nextPaymentDate) <= args.reminderDays))

\* C11 witness: a payment n > 0 days ahead, in the morning of a day whose
\* evening is now, is inside the window of n days
C11_Witness ==
  /\ "isWithinReminderDays" \in DOMAIN ret
  /\ ret["isWithinReminderDays"]
  /\ args.reminderDays > 0
  /\ DaysUntil(args.nextPaymentDate) = args.reminderDays
  /\ args.nextPaymentDate.h < now.h

----------------------------------------------------------------------------
(* lib/filtering.ts *)

\* longest list of records handed to a library function
MaxLen == 3

\* subscriptions.filter(...) of each function: SelectSeq keeps the order
filterByCategoryOrNone(subs, category) ==
  LET Test(sub) == sub.category = <<category>> \/ sub.category = Null
  IN  SelectSeq(subs, Test)

filterByCategory(subs, category) ==
  LET Test(sub) == sub.category = <<category>>
  IN  SelectSeq(subs, Test)

filterByStatus(subs, status) ==
  LET Test(sub) == sub.status = status
  IN  SelectSeq(subs, Test)

filterBySubscriptionType(subs, type) ==
  LET Test(sub) == sub.subscriptionType = type
  IN  SelectSeq(subs, Test)

\* the columns the filters read, of four rows
FilterRows ==
  {[id |-> 1, category |-> <<"Entertainment">>, status |-> "active",
    subscriptionType |-> "subscription"],
   [id |-> 2, category |-> <<"Tools">>, status |-> "cancelled",
    subscriptionType |-> "trial"],
   [id |-> 3, category |-> Null, status |-> "active",
    subscriptionType |-> "voucher"],
   [id |-> 4, category |-> <<"Entertainment">>, status |-> "expired",
    subscriptionType |-> "trial"]}

\* every list of at most n elements of S
ListsUpTo(S, n) == UNION {[1 .. k -> S] : k \in 0 .. n}

InitFilter ==
  /\ subscriptions = <<>>
  /\ paymentMethods = <<>>
  /\ nextId = 1
  /\ response = NoResponse
  /\ tz = 0
  /\ ClientAtLoad
  /\ NoSeeding
  /\ accountCredentials = <<>>
  /\ dArg = NoDate
  /\ cArg = ""
  /\ calcRet = NotCalled
  /\ advRet = NotCalled
  /\ now = NoDate
  /\ args \in [subscriptions : ListsUpTo(FilterRows, MaxLen),
               category : {"Entertainment", "Work"},
               status : {"active", "expired"},
               type : {"trial", "subscription"}]
  /\ ret = <<>>

\* a library call returns; nothing else changes
Returns(fn, value) ==
  /\ fn \notin DOMAIN ret
  /\ ret' = ret @@ (fn :> value)
  /\ UNCHANGED <<subscriptions, paymentMethods, nextId, response, accountCredentials, client, seeding, tz, dArg, cArg, calcRet,
                 advRet, now, args>>

CallFilterByCategory ==
  Returns("filterByCategory",
          filterByCategory(args.subscriptions, args.category))

CallFilterByStatus ==
  Returns("filterByStatus", filterByStatus(args.subscriptions, args.status))

CallFilterBySubscriptionType ==
  Returns("filterBySubscriptionType",
          filterBySubscriptionType(args.subscriptions, args.type))

NextFilter ==
  \/ CallFilterByCategory
  \/ CallFilterByStatus
  \/ CallFilterBySubscriptionType

SpecFilter == InitFilter /\ [][NextFilter]_vars

\* `out` holds exactly the elements of `in` at the positions `keep`, in order
IsSublistAt(out, in, keep) ==
  /\ Len(out) = Cardinality(keep)
  /\ \A i \in 1 .. Len(out) :
       out[i] = in[CHOOSE j \in keep : Cardinality({k \in keep : k <= j}) = i]

\* C12: filterByCategory, filterByStatus and filterBySubscriptionType return
\* exactly the records whose field equals the target, in input order; an empty
\* input or an input with no match gives the empty list.
C12_FilterExact ==
  LET in == args.subscriptions
  IN  /\ "filterByCategory" \in DOMAIN ret =>
           IsSublistAt(ret["filterByCategory"], in,
             {j \in 1 .. Len(in) : in[j].category = <<args.category>>})
      /\ "filterByStatus" \in DOMAIN ret =>
           IsSublistAt(ret["filterByStatus"], in,
             {j \in 1 .. Len(in) : in[j].status = args.status})
      /\ "filterBySubscriptionType" \in DOMAIN ret =>
           IsSublistAt(ret["filterBySubscriptionType"], in,
             {j \in 1 .. Len(in) : in[j].subscriptionType = args.type})
      /\ \A fn \in DOMAIN ret :
           (in = <<>> \/ \A j \in 1 .. Len(in) :
                           /\ in[j].category # <<args.category>>
                           /\ in[j].status # args.status
                           /\ in[j].subscriptionType # args.type)
           => ret[fn] = <<>>

\* C12 witness: of rows 4, 3, 1 the category filter returned 4 then 1, the
\* status filter 3 then 1, the type filter 4 alone
C12_Witness ==
  /\ DOMAIN ret = {"filterByCategory", "filterByStatus",
                   "filterBySubscriptionType"}
  /\ Len(args.subscriptions) = 3
  /\ Len(ret["filterByCategory"]) = 2
  /\ ret["filterByCategory"][1].id = 4
  /\ ret["filterByCategory"][2].id = 1
  /\ Len(ret["filterByStatus"]) = 2
  /\ ret["filterByStatus"][1].id = 3
  /\ Len(ret["filterBySubscriptionType"]) = 1

----------------------------------------------------------------------------
(* lib/calculations.ts: calculateTotalMonthlySpending *)

\* a JavaScript number that is an amount of money, or NaN.  Amounts are exact,
\* in twelfths of a cent, so that price / 12 is a whole number of units; the
\* rounding of floating point is left out.
NaN == [nan |-> TRUE, value |-> 0]
Number(units) == [nan |-> FALSE, value |-> units]
isNaN(number) == number.nan

DigitValue ==
  [c \in Digits |->
     CASE c = "0" -> 0 [] c = "1" -> 1 [] c = "2" -> 2 [] c = "3" -> 3
       [] c = "4" -> 4 [] c = "5" -> 5 [] c = "6" -> 6 [] c = "7" -> 7
       [] c = "8" -> 8 [] c = "9" -> 9]

\* how many digits the string has from position i on
RECURSIVE digitRun(_, _)
digitRun(str, i) ==
  IF i <= Len(str) /\ str[i] \in Digits THEN 1 + digitRun(str, i + 1) ELSE 0

\* the number a run of digits writes
RECURSIVE numberOf(_)
numberOf(digits) ==
  IF digits = <<>> THEN 0
  ELSE 10 * numberOf(SubSeq(digits, 1, Len(digits) - 1))
         + DigitValue[digits[Len(digits)]]

\* parseFloat: the longest prefix sign? digits* (. digits*)? with a digit in it,
\* NaN when there is none.  Prices have at most two decimals (numeric(10, 2));
\* further decimals are dropped here.
parseFloat(str) ==
  LET signed == Len(str) >= 1 /\ str[1] \in {"-", "+"}
      start  == IF signed THEN 2 ELSE 1
      nInt   == digitRun(str, start)
      dot    == start + nInt
      hasDot == dot <= Len(str) /\ str[dot] = "."
      nFrac  == IF hasDot THEN digitRun(str, dot + 1) ELSE 0
      tenths == IF nFrac >= 1 THEN DigitValue[str[dot + 1]] ELSE 0
      hundredths == IF nFrac >= 2 THEN DigitValue[str[dot + 2]] ELSE 0
      cents  == 100 * numberOf(SubSeq(str, start, start + nInt - 1))
                  + 10 * tenths + hundredths
      sign   == IF signed /\ str[1] = "-" THEN -1 ELSE 1
  IN  IF nInt + nFrac = 0 THEN NaN ELSE Number(12 * sign * cents)

\* (sub as any).subscriptionType: undefined on a row of the older schema
Undefined == "undefined"
subscriptionTypeOf(sub) ==
  IF "subscriptionType" \in DOMAIN sub THEN sub.subscriptionType ELSE Undefined

\* the reducer with yearly prices counted in full
addToTotalYearlyInFull(total, sub) ==
  LET price == parseFloat(sub.price)
      subscriptionType == subscriptionTypeOf(sub)
  IN  IF isNaN(price) THEN total
      ELSE IF subscriptionType = "trial" THEN total
      ELSE IF subscriptionType = "voucher" THEN total + price.value
      ELSE IF sub.billingCycle \in billingCycleValues THEN total + price.value
      ELSE total

\* the reducer of the revision before subscriptionType: the cycle decides
addToTotalByCycle(total, sub) ==
  LET price == parseFloat(sub.price)
  IN  IF isNaN(price) THEN total
      ELSE CASE sub.billingCycle = "monthly" -> total + price.value
             [] sub.billingCycle = "yearly" -> total + price.value \div 12
             [] sub.billingCycle \in {"one-time", "trial"} -> total + price.value
             [] OTHER -> total

\* the reducer without the isNaN test: an unparsable price is counted as -1 unit
addToTotalUnparsed(total, sub) ==
  LET price == parseFloat(sub.price)
      subscriptionType == subscriptionTypeOf(sub)
      amount == IF isNaN(price) THEN -1 ELSE price.value
  IN  IF subscriptionType = "trial" THEN total
      ELSE IF subscriptionType = "voucher" THEN total + amount
      ELSE CASE sub.billingCycle = "monthly" -> total + amount
             [] sub.billingCycle = "yearly" -> total + amount \div 12
             [] sub.billingCycle \in {"one-time", "trial"} -> total + amount
             [] OTHER -> total

\* the callback of .reduce((total, sub) => ..., 0)
addToTotal(total, sub) ==
  LET price == parseFloat(sub.price)
      subscriptionType == subscriptionTypeOf(sub)
  IN  IF isNaN(price) THEN total
      ELSE IF subscriptionType = "trial" THEN total
      ELSE IF subscriptionType = "voucher" THEN total + price.value
      ELSE CASE sub.billingCycle = "monthly" -> total + price.value
             [] sub.billingCycle = "yearly" -> total + price.value \div 12
             [] sub.billingCycle \in {"one-time", "trial"} -> total + price.value
             [] OTHER -> total

\* array.reduce(addToTotal, total) from position i on
RECURSIVE reduceFrom(_, _, _)
reduceFrom(subs, i, total) ==
  IF i > Len(subs) THEN total
  ELSE reduceFrom(subs, i + 1, addToTotal(total, subs[i]))

calculateTotalMonthlySpending(subs) ==
  LET Active(sub) == sub.status = "active"
  IN  reduceFrom(SelectSeq(subs, Active), 1, 0)

\* price strings, character by character
Price999 == <<"9", ".", "9", "9">>
Price12000 == <<"1", "2", "0", ".", "0", "0">>
Price500 == <<"5", ".", "0", "0">>
PriceAbc == <<"a", "b", "c">>
PriceEmpty == <<>>

PriceOfCycle ==
  [c \in billingCycleValues |->
     CASE c = "monthly" -> Price999 [] c = "yearly" -> Price12000
       [] c = "one-time" -> Price500 [] c = "trial" -> Price999]

\* the columns the total reads: active rows of every cycle and type, active
\* rows of the older schema, rows that are not active, rows with a bad price
SpendingRows ==
  {[price |-> PriceOfCycle[c], billingCycle |-> c, subscriptionType |-> t,
    status |-> "active"] : c \in billingCycleValues, t \in subscriptionTypeValues}
  \cup
  {[price |-> PriceOfCycle[c], billingCycle |-> c, status |-> "active"] :
     c \in billingCycleValues}
  \cup
  {[price |-> Price12000, billingCycle |-> "yearly",
    subscriptionType |-> "subscription", status |-> "cancelled"],
   [price |-> Price999, billingCycle |-> "monthly",
    subscriptionType |-> "voucher", status |-> "expired"],
   [price |-> PriceAbc, billingCycle |-> "monthly",
    subscriptionType |-> "subscription", status |-> "active"],
   [price |-> PriceEmpty, billingCycle |-> "yearly",
    subscriptionType |-> "voucher", status |-> "active"]}

InitSpending ==
  /\ subscriptions = <<>>
  /\ paymentMethods = <<>>
  /\ nextId = 1
  /\ response = NoResponse
  /\ tz = 0
  /\ ClientAtLoad
  /\ NoSeeding
  /\ accountCredentials = <<>>
  /\ dArg = NoDate
  /\ cArg = ""
  /\ calcRet = NotCalled
  /\ advRet = NotCalled
  /\ now = NoDate
  /\ args \in [subscriptions : ListsUpTo(SpendingRows, MaxLen)]
  /\ ret = <<>>

CallCalculateTotalMonthlySpending ==
  Returns("calculateTotalMonthlySpending",
          calculateTotalMonthlySpending(args.subscriptions))

NextSpending == CallCalculateTotalMonthlySpending

SpecSpending == InitSpending /\ [][NextSpending]_vars

\* what the records of a list have
Parses(sub) == ~isNaN(parseFloat(sub.price))
AllParse(subs) == \A i \in 1 .. Len(subs) : Parses(subs[i])
NoTrialOrVoucher(subs) ==
  \A i \in 1 .. Len(subs) :
    subscriptionTypeOf(subs[i]) \notin {"trial", "voucher"}

\* a record's share by its cycle: price, or price / 12 for yearly; 0 unless
\* active
ShareByCycle(sub) ==
  LET price == parseFloat(sub.price).value
  IN  IF sub.status # "active" THEN 0
      ELSE IF sub.billingCycle = "yearly" THEN price \div 12
      ELSE price

\* a record's share when its type comes first: 0 for a trial, the price for a
\* voucher, else the share by cycle
ShareByType(sub) ==
  LET price == parseFloat(sub.price).value
  IN  IF sub.status # "active" THEN 0
      ELSE IF subscriptionTypeOf(sub) = "trial" THEN 0
      ELSE IF subscriptionTypeOf(sub) = "voucher" THEN price
      ELSE ShareByCycle(sub)

RECURSIVE SumByCycle(_)
SumByCycle(subs) ==
  IF subs = <<>> THEN 0 ELSE ShareByCycle(Head(subs)) + SumByCycle(Tail(subs))

RECURSIVE SumByType(_)
SumByType(subs) ==
  IF subs = <<>> THEN 0 ELSE ShareByType(Head(subs)) + SumByType(Tail(subs))

Total == ret["calculateTotalMonthlySpending"]
TotalReturned == "calculateTotalMonthlySpending" \in DOMAIN ret

\* C13: for a list of records with parsable prices and without a trial or
\* voucher subscriptionType, calculateTotalMonthlySpending is the sum over the
\* active records of price (monthly, one-time, trial) or price / 12 (yearly);
\* cancelled and expired records add nothing; the empty list gives 0.
C13_SumByCycle ==
  (/\ TotalReturned
   /\ AllParse(args.subscriptions)
   /\ NoTrialOrVoucher(args.subscriptions))
  => /\ Total = SumByCycle(args.subscriptions)
     /\ args.subscriptions = <<>> => Total = 0

\* C13 witness: a monthly 9.99, a cancelled yearly 120.00 and an active yearly
\* 120.00 of the older schema total 19.99
C13_Witness ==
  /\ TotalReturned
  /\ Len(args.subscriptions) = 3
  /\ NoTrialOrVoucher(args.subscriptions)
  /\ \E i, j, k \in 1 .. 3 :
       /\ args.subscriptions[i].billingCycle = "monthly"
       /\ args.subscriptions[i].status = "active"
       /\ args.subscriptions[j].billingCycle = "yearly"
       /\ args.subscriptions[j].status = "cancelled"
       /\ args.subscriptions[k].billingCycle = "yearly"
       /\ args.subscriptions[k].status = "active"
       /\ "subscriptionType" \notin DOMAIN args.subscriptions[k]
  /\ Total = 12 * 1999

\* C14: the subscriptionType comes before the billingCycle: an active record
\* of type trial adds 0 whatever its cycle, an active record of type voucher
\* adds its full price whatever its cycle (a yearly voucher is not divided by
\* 12), every other record adds its share by cycle.
C14_TypeFirst ==
  (TotalReturned /\ AllParse(args.subscriptions))
  => /\ Total = SumByType(args.subscriptions)
     /\ \A c \in billingCycleValues :
          /\ args.subscriptions =
               <<[price |-> PriceOfCycle[c], billingCycle |-> c,
                  subscriptionType |-> "trial", status |-> "active"]>>
             => Total = 0
          /\ args.subscriptions =
               <<[price |-> PriceOfCycle[c], billingCycle |-> c,
                  subscriptionType |-> "voucher", status |-> "active"]>>
             => Total = parseFloat(PriceOfCycle[c]).value

\* C14 witness: a monthly record of type trial and a yearly voucher of 120.00
\* total 120.00
C14_Witness ==
  /\ TotalReturned
  /\ args.subscriptions =
       <<[price |-> Price999, billingCycle |-> "monthly",
          subscriptionType |-> "trial", status |-> "active"],
         [price |-> Price12000, billingCycle |-> "yearly",
          subscriptionType |-> "voucher", status |-> "active"]>>
  /\ Total = 12 * 12000

\* C15: a record whose price does not parse adds 0 and leaves the rest of the
\* sum as it is: the total of a list equals the total of the list with its
\* unparsable records removed.
C15_BadPriceSkipped ==
  TotalReturned =>
    Total = calculateTotalMonthlySpending(SelectSeq(args.subscriptions, Parses))

\* C15 witness: "abc", a monthly 9.99 and "" total 9.99
C15_Witness ==
  /\ TotalReturned
  /\ Len(args.subscriptions) = 3
  /\ args.subscriptions[1].price = PriceAbc
  /\ args.subscriptions[2].price = Price999
  /\ args.subscriptions[2].billingCycle = "monthly"
  /\ subscriptionTypeOf(args.subscriptions[2]) = "subscription"
  /\ args.subscriptions[3].price = PriceEmpty
  /\ Total = 12 * 999

----------------------------------------------------------------------------
(* lib/calculations.ts: getTrialsEndingSoon, against the system clock *)

\* getTrialsEndingSoon that measures from the present moment, not from the
\* start of today
getTrialsEndingSoonFromNow(subs, thresholdDays) ==
  LET today == now
      Test(sub) ==
        LET subscriptionType == subscriptionTypeOf(sub)
            nextPaymentDate == setHours0(newDate(sub.nextPaymentDate, tz))
            daysUntilEnd == differenceInDays(nextPaymentDate, today)
        IN  IF subscriptionType # "trial" /\ sub.billingCycle # "trial"
            THEN FALSE
            ELSE daysUntilEnd >= 0 /\ daysUntilEnd <= thresholdDays
  IN  SelectSeq(subs, Test)

getTrialsEndingSoon(subs, thresholdDays) ==
  LET today == setHours0(now)
      Test(sub) ==
        LET subscriptionType == subscriptionTypeOf(sub)
            nextPaymentDate == setHours0(newDate(sub.nextPaymentDate, tz))
            daysUntilEnd == differenceInDays(nextPaymentDate, today)
        IN  IF subscriptionType # "trial" /\ sub.billingCycle # "trial"
            THEN FALSE
            ELSE daysUntilEnd >= 0 /\ daysUntilEnd <= thresholdDays
  IN  SelectSeq(subs, Test)

\* UTC offsets west of Greenwich the process may run under (the server actions
\* behave under these as under offset 0 for the Dates they are given)
WestOffsets == {-5}

\* thresholds the dashboard asks for, and how many days from today the rows
\* are due
ThresholdInputs == {3, 7}
DueIn == {-1, 0, 3, 4, 5, 7, 8}

\* the stored "YYYY-MM-DD" text of the day k days after the clock's day
DateStrAfter(k) == CivilFromDays(DaysFromCivil(now.y, now.m, now.d) + k)

\* the columns getTrialsEndingSoon reads: trials due on each of the days, a
\* monthly row of type trial, a monthly subscription, a trial of the older
\* schema
TrialRows ==
  {[billingCycle |-> "trial", subscriptionType |-> "subscription",
    nextPaymentDate |-> DateStrAfter(k)] : k \in DueIn}
  \cup
  {[billingCycle |-> "monthly", subscriptionType |-> "trial",
    nextPaymentDate |-> DateStrAfter(5)],
   [billingCycle |-> "monthly", subscriptionType |-> "subscription",
    nextPaymentDate |-> DateStrAfter(0)],
   [billingCycle |-> "trial", nextPaymentDate |-> DateStrAfter(0)]}

InitTrials ==
  /\ subscriptions = <<>>
  /\ paymentMethods = <<>>
  /\ nextId = 1
  /\ response = NoResponse
  /\ tz \in TzOffsets \cup WestOffsets
  /\ ClientAtLoad
  /\ NoSeeding
  /\ accountCredentials = <<>>
  /\ dArg = NoDate
  /\ cArg = ""
  /\ calcRet = NotCalled
  /\ advRet = NotCalled
  /\ now \in {date \in NowInputs : date.d = 28}
  /\ args \in [subscriptions : ListsUpTo(TrialRows, MaxLen),
               thresholdDays : ThresholdInputs]
  /\ ret = <<>>

CallGetTrialsEndingSoon ==
  Returns("getTrialsEndingSoon",
          getTrialsEndingSoon(args.subscriptions, args.thresholdDays))

NextTrials == CallGetTrialsEndingSoon

SpecTrials == InitTrials /\ [][NextTrials]_vars

\* whole days from the clock's day to the day a stored date text names
DaysUntilStr(dateString) ==
  DaysFromCivil(dateString.y, dateString.m, dateString.d)
    - DaysFromCivil(now.y, now.m, now.d)

\* C16 as claimed: getTrialsEndingSoon(records, n) returns, in input order,
\* exactly the records for which (subscriptionType is trial or billingCycle is
\* trial) and the whole-day difference between nextPaymentDate and today lies
\* in 0 .. n.
C16_TrialsEndingSoon ==
  "getTrialsEndingSoon" \in DOMAIN ret =>
    LET in == args.subscriptions
    IN  IsSublistAt(ret["getTrialsEndingSoon"], in,
          {j \in 1 .. Len(in) :
             /\ \/ subscriptionTypeOf(in[j]) = "trial"
                \/ in[j].billingCycle = "trial"
             /\ DaysUntilStr(in[j].nextPaymentDate) >= 0
             /\ DaysUntilStr(in[j].nextPaymentDate) <= args.thresholdDays})

----------------------------------------------------------------------------
(* lib/masking.ts applied to every short text of digits and other characters *)

\* longest payment number text
MaxNumberLen == 5

\* the characters of the texts: three digits, a dash, a space, a letter
NumberChars == {"1", "2", "7", "-", " ", "a"}

InitMasking ==
  /\ subscriptions = <<>>
  /\ paymentMethods = <<>>
  /\ nextId = 1
  /\ response = NoResponse
  /\ tz = 0
  /\ ClientAtLoad
  /\ NoSeeding
  /\ accountCredentials = <<>>
  /\ dArg = NoDate
  /\ cArg = ""
  /\ calcRet = NotCalled
  /\ advRet = NotCalled
  /\ now = NoDate
  /\ args \in [fullNumber : ListsUpTo(NumberChars, MaxNumberLen)]
  /\ ret = <<>>

CallMaskPaymentMethod ==
  Returns("maskPaymentMethod", maskPaymentMethod(args.fullNumber))

NextMasking == CallMaskPaymentMethod

SpecMasking == InitMasking /\ [][NextMasking]_vars

Stars == <<"*", "*", "*", "*", " ">>
Masked == ret["maskPaymentMethod"]
MaskReturned == "maskPaymentMethod" \in DOMAIN ret
DigitPositions(str) == {j \in 1 .. Len(str) : str[j] \in Digits}
AllDigits(str) == DigitPositions(str) = 1 .. Len(str)

\* C17: for a text s of digits alone, maskPaymentMethod(s) is "**** " and the
\* last 4 digits of s when s has 4 digits or more, and s itself when it has
\* fewer.
C17_MaskDigits ==
  (MaskReturned /\ AllDigits(args.fullNumber)) =>
    LET str == args.fullNumber
    IN  IF Len(str) >= 4
        THEN Masked = Stars \o SubSeq(str, Len(str) - 3, Len(str))
        ELSE Masked = str

\* C17 witness: 12712 was masked to "**** 2712"
C17_Witness ==
  /\ MaskReturned
  /\ args.fullNumber = <<"1", "2", "7", "1", "2">>
  /\ Masked = <<"*", "*", "*", "*", " ", "2", "7", "1", "2">>

\* C18 as claimed: for a text with fewer than four digits among its
\* characters, maskPaymentMethod returns the text unchanged.
C18_AsClaimed ==
  (MaskReturned /\ Cardinality(DigitPositions(args.fullNumber)) < 4)
  => Masked = args.fullNumber

\* C18 as amended: for a text with fewer than four digits among its
\* characters, maskPaymentMethod returns the digits of the text, in order and
\* without the other characters, which is the text itself only when the text
\* is all digits.
C18_ShortGivesDigits ==
  (MaskReturned /\ Cardinality(DigitPositions(args.fullNumber)) < 4)
  => /\ IsSublistAt(Masked, args.fullNumber, DigitPositions(args.fullNumber))
     /\ Masked = args.fullNumber <=> AllDigits(args.fullNumber)

\* C18 witness: "1-2 7" came back as "127"
C18_Witness ==
  /\ MaskReturned
  /\ args.fullNumber = <<"1", "-", "2", " ", "7">>
  /\ Masked = <<"1", "2", "7">>

----------------------------------------------------------------------------
(* actions/master-data.ts: payment methods; and the server actions given   *)
(* payment numbers                                                         *)

\* an input of createPaymentMethod / updatePaymentMethod, as NoInput
NoMethodInput ==
  [keys |-> {}, name |-> "", provider |-> "", accountNumber |-> <<>>,
   isDefault |-> FALSE]

\* the row .values({...}) inserts
newMethod(id, userId, input) ==
  [id |-> id,
   userId |-> userId,
   name |-> input.name,
   provider |-> input.provider,
   lastFourDigits |->
     IF Has(input, "accountNumber") /\ input.accountNumber # <<>>
     THEN <<maskPaymentMethod(input.accountNumber)>> ELSE Null,
   isDefault |-> IF Has(input, "isDefault") THEN input.isDefault ELSE FALSE]

createPaymentMethod(userId, input) ==
  LET id == defaultRandom
  IN  /\ nextId <= MaxSubs
      /\ response' = Success("createPaymentMethod", id)
      /\ nextId' = nextId + 1
      /\ paymentMethods' = (id :> newMethod(id, userId, input)) @@ paymentMethods
      /\ UNCHANGED <<subscriptions, accountCredentials, client, seeding, tz, dArg, cArg, calcRet, advRet, calls>>

\* updateData is set on the rows `where id = methodId and user_id = userId`;
\* the result is a success also when there is no such row (data undefined)
updatePaymentMethod(userId, methodId, input) ==
  LET found == {id \in DOMAIN paymentMethods :
                  id = methodId /\ paymentMethods[id].userId = userId}
  IN  /\ response' = Success("updatePaymentMethod",
                             IF found = {} THEN NoData ELSE methodId)
      /\ paymentMethods' =
           [id \in DOMAIN paymentMethods |->
              IF id \in found
              THEN [paymentMethods[id] EXCEPT
                      !.name = IF Has(input, "name") /\ input.name # ""
                               THEN input.name ELSE @,
                      !.provider =
                         IF Has(input, "provider") /\ input.provider # ""
                         THEN input.provider ELSE @,
                      !.lastFourDigits =
                         IF Has(input, "accountNumber")
                            /\ input.accountNumber # <<>>
                         THEN <<maskPaymentMethod(input.accountNumber)>>
                         ELSE @]
              ELSE paymentMethods[id]]
      /\ UNCHANGED <<subscriptions, nextId, accountCredentials, client, seeding, tz, dArg, cArg, calcRet, advRet,
                     calls>>

\* payment numbers users enter: 123, 4111-1234, 1234, and none
NumberInputs ==
  {<<"1", "2", "3">>,
   <<"4", "1", "1", "1", "-", "1", "2", "3", "4">>,
   <<"1", "2", "3", "4">>,
   <<>>}

NumberCreateInputs ==
  {[inMonthly EXCEPT !.keys = @ \cup {"paymentMethodNumber"},
                     !.paymentMethodNumber = n] : n \in NumberInputs}

NumberUpdateInputs ==
  {[NoInput EXCEPT !.keys = {"paymentMethodNumber"},
                   !.paymentMethodNumber = n] : n \in NumberInputs}

MethodCreateInputs ==
  {[NoMethodInput EXCEPT !.keys = {"name", "provider", "accountNumber"},
                         !.name = "Card", !.provider = "BCA",
                         !.accountNumber = n] : n \in NumberInputs}

MethodUpdateInputs ==
  {[NoMethodInput EXCEPT !.keys = {"accountNumber"}, !.accountNumber = n] :
     n \in NumberInputs}

InitNumbers ==
  /\ subscriptions = <<>>
  /\ paymentMethods = <<>>
  /\ nextId = 1
  /\ response = NoResponse
  /\ tz = 0
  /\ ClientAtLoad
  /\ NoSeeding
  /\ accountCredentials = <<>>
  /\ dArg = NoDate
  /\ cArg = ""
  /\ calcRet = NotCalled
  /\ advRet = NotCalled
  /\ now = NoDate
  /\ args = <<>>
  /\ ret = <<>>

CreateSubscriptionWithNumber ==
  \E u \in Users, input \in NumberCreateInputs : createSubscription(u, input)
UpdateSubscriptionNumber ==
  \E u \in Users, id \in Ids, input \in NumberUpdateInputs :
    updateSubscription(u, id, input)
CreatePaymentMethod ==
  \E u \in Users, input \in MethodCreateInputs : createPaymentMethod(u, input)
UpdatePaymentMethod ==
  \E u \in Users, id \in Ids, input \in MethodUpdateInputs :
    updatePaymentMethod(u, id, input)

NextNumbers ==
  \/ CreateSubscriptionWithNumber
  \/ UpdateSubscriptionNumber
  \/ CreatePaymentMethod
  \/ UpdatePaymentMethod

SpecNumbers == InitNumbers /\ [][NextNumbers]_vars

\* the stored value (a nullable column) hides the entered number: it is null,
\* or it is "**** " and the last four digits of the number, and is not the
\* number itself
Hides(stored, entered) ==
  \/ stored = Null
  \/ /\ stored[1] # entered
     /\ Len(digitsOnly(entered)) >= 4
     /\ stored[1] = Stars \o SubSeq(digitsOnly(entered),
                                    Len(digitsOnly(entered)) - 3,
                                    Len(digitsOnly(entered)))

\* C19 as claimed: whatever payment number createSubscription,
\* updateSubscription, createPaymentMethod or updatePaymentMethod is given,
\* the paymentMethodNumber / lastFourDigits it stores is null or differs from
\* the number entered and shows at most its last 4 digits, as "**** XXXX".
C19_FullNumberNeverStored ==
  [][/\ \A u \in Users, input \in NumberCreateInputs :
          (/\ response' = Success("createSubscription", nextId)
           /\ createSubscription(u, input))
          => Hides(subscriptions'[nextId].paymentMethodNumber,
                   input.paymentMethodNumber)
     /\ \A u \in Users, id \in Ids, input \in NumberUpdateInputs :
          (/\ response' = Success("updateSubscription", id)
           /\ updateSubscription(u, id, input))
          => Hides(subscriptions'[id].paymentMethodNumber,
                   input.paymentMethodNumber)
     /\ \A u \in Users, input \in MethodCreateInputs :
          (/\ response' = Success("createPaymentMethod", nextId)
           /\ createPaymentMethod(u, input))
          => Hides(paymentMethods'[nextId].lastFourDigits, input.accountNumber)
     /\ \A u \in Users, id \in Ids, input \in MethodUpdateInputs :
          (/\ response' = Success("updatePaymentMethod", id)
           /\ input.accountNumber # <<>>
           /\ updatePaymentMethod(u, id, input))
          => Hides(paymentMethods'[id].lastFourDigits, input.accountNumber)
    ]_vars

----------------------------------------------------------------------------
(* encryptPassword and decryptPassword over bounded texts.  A text is drawn  *)
(* from the letter a, e with acute accent (U+00E9), the euro sign (U+20AC)   *)
(* and the two code units D83D DE00 of the emoji U+1F600, which JavaScript   *)
(* strings may also hold apart from each other.                              *)

MaxTextLen == 2

TextUnits == {97, 233, 8364, 55357, 56832}

InitEncryption ==
  /\ subscriptions = <<>>
  /\ paymentMethods = <<>>
  /\ nextId = 1
  /\ response = NoResponse
  /\ tz = 0
  /\ ClientAtLoad
  /\ NoSeeding
  /\ accountCredentials = <<>>
  /\ dArg = NoDate
  /\ cArg = ""
  /\ calcRet = NotCalled
  /\ advRet = NotCalled
  /\ now = NoDate
  /\ args \in [plainText : ListsUpTo(TextUnits, MaxTextLen)]
  /\ ret = <<>>

\* const encrypted1 = encryptPassword(password)
CallEncryptPassword ==
  \E iv \in IVs : Returns("encrypted1", encryptPassword(args.plainText, iv))

\* const encrypted2 = encryptPassword(password)
CallEncryptPasswordAgain ==
  /\ "encrypted1" \in DOMAIN ret
  /\ \E iv \in IVs : Returns("encrypted2", encryptPassword(args.plainText, iv))

\* const decrypted1 = decryptPassword(encrypted1)
CallDecryptPassword ==
  /\ "encrypted1" \in DOMAIN ret
  /\ Returns("decrypted1", decryptPassword(ret["encrypted1"]))

\* const decrypted2 = decryptPassword(encrypted2)
CallDecryptPasswordAgain ==
  /\ "encrypted2" \in DOMAIN ret
  /\ Returns("decrypted2", decryptPassword(ret["encrypted2"]))

NextEncryption ==
  \/ CallEncryptPassword
  \/ CallEncryptPasswordAgain
  \/ CallDecryptPassword
  \/ CallDecryptPasswordAgain

SpecEncryption == InitEncryption /\ [][NextEncryption]_vars

\* C20 as claimed: for every string s, the empty string and non-ASCII text
\* included, and every IV encryptPassword may draw, decryptPassword returns s
\* from encryptPassword(s), for the first call of encryptPassword on s and
\* for a second one alike.
C20_RoundTrip ==
  \A fn \in {"decrypted1", "decrypted2"} \cap DOMAIN ret :
     ret[fn] = Returned(args.plainText)

----------------------------------------------------------------------------
(* Decryption of stored ciphertexts: decryptSubscriptionPassword            *)
(* (actions/subscriptions.ts) and decryptCredentialPassword                  *)
(* (actions/master-data.ts), over ciphertexts as encryptPassword wrote them  *)
(* and over the same texts cut short, lengthened or with one byte altered.   *)

\* an ActionResult<string>: data is the decrypted password
Decrypted(op, password) ==
  [op |-> op, id |-> NoData, success |-> TRUE, error |-> "",
   validationErrors |-> {}, data |-> password]

\* a text column is falsy when it is null or the empty string
falsy(column) == column = Null \/ column[1] = <<>>

\* decryptSubscriptionPassword whose where clause is the id alone
decryptSubscriptionPasswordAnyOwner(userId, subscriptionId) ==
  LET op == "decryptSubscriptionPassword"
      found == {id \in DOMAIN subscriptions : id = subscriptionId}
  IN  /\ response' =
           IF found = {} THEN Failure(op, "Subscription not found", {})
           ELSE IF falsy(subscriptions[subscriptionId].accountPasswordEncrypted)
           THEN Failure(op, "No password stored for this subscription", {})
           ELSE LET decryptedPassword ==
                      decryptPassword(
                        subscriptions[subscriptionId].accountPasswordEncrypted[1])
                IN  IF decryptedPassword.thrown
                    THEN Failure(op, "Failed to decrypt password", {})
                    ELSE Decrypted(op, decryptedPassword.value)
      /\ UNCHANGED <<subscriptions, nextId, accountCredentials, client, seeding, tz, dArg, cArg, calcRet,
                     advRet, calls, paymentMethods>>

decryptSubscriptionPassword(userId, subscriptionId) ==
  LET op == "decryptSubscriptionPassword"
      found == owned(userId, subscriptionId)
  IN  /\ response' =
           IF found = {} THEN Failure(op, "Subscription not found", {})
           ELSE IF falsy(subscriptions[subscriptionId].accountPasswordEncrypted)
           THEN Failure(op, "No password stored for this subscription", {})
           ELSE LET decryptedPassword ==
                      decryptPassword(
                        subscriptions[subscriptionId].accountPasswordEncrypted[1])
                IN  IF decryptedPassword.thrown
                    THEN Failure(op, "Failed to decrypt password", {})
                    ELSE Decrypted(op, decryptedPassword.value)
      /\ UNCHANGED <<subscriptions, nextId, accountCredentials, client, seeding, tz, dArg, cArg, calcRet,
                     advRet, calls, paymentMethods>>

\* the rows `where id = credentialId and user_id = userId` selects
ownedCredential(userId, credentialId) ==
  {id \in DOMAIN accountCredentials :
     id = credentialId /\ accountCredentials[id].userId = userId}

decryptCredentialPassword(userId, credentialId) ==
  LET op == "decryptCredentialPassword"
      found == ownedCredential(userId, credentialId)
  IN  /\ response' =
           IF found = {} \/ falsy(accountCredentials[credentialId].passwordEncrypted)
           THEN Failure(op, "Credential not found or no password stored", {})
           ELSE LET decrypted ==
                      decryptPassword(accountCredentials[credentialId].passwordEncrypted[1])
                IN  IF decrypted.thrown
                    THEN Failure(op, "Failed to decrypt password", {})
                    ELSE Decrypted(op, decrypted.value)
      /\ UNCHANGED <<subscriptions, nextId, accountCredentials, client, seeding, tz, dArg, cArg, calcRet,
                     advRet, calls, paymentMethods>>

\* the passwords encrypted: none, "a" and e-acute followed by "a"
Passwords == {<<>>, <<97>>, <<233, 97>>}

\* byte counts a stored text is cut to, and the byte positions altered: in the
\* IV, in the auth tag, and the first and second byte of the payload
CutTo == {1, 16, 19, 20, 24, 28, 31, 32, 33}
AlterAt == {1, 16, 17, 32, 33, 34}

Tamperings ==
  {[kind |-> "none", at |-> 0], [kind |-> "append", at |-> 0]}
    \cup {[kind |-> "cut", at |-> n] : n \in CutTo}
    \cup {[kind |-> "alter", at |-> i] : i \in AlterAt}

\* the stored text after the change t; a cut or an altered byte beyond its
\* end leaves it as it is
tamper(cipherText, t) ==
  LET combined == fromBase64(cipherText)
  IN  CASE t.kind = "append" -> toBase64(combined \o <<0>>)
        [] t.kind = "cut" /\ t.at < Len(combined) ->
             toBase64(SubSeq(combined, 1, t.at))
        [] t.kind = "alter" /\ t.at <= Len(combined) ->
             toBase64([combined EXCEPT ![t.at] = (@ + 1) % 256])
        [] OTHER -> cipherText

\* the account_credentials row createAccountCredential inserts
newCredential(id, userId, passwordEncrypted) ==
  [id |-> id, userId |-> userId, name |-> "Netflix", email |-> "a@b.co",
   passwordEncrypted |-> passwordEncrypted, loginMethod |-> "email",
   isDefault |-> FALSE]

InitTampered ==
  /\ nextId = 2
  /\ response = NoResponse
  /\ tz = 0
  /\ ClientAtLoad
  /\ NoSeeding
  /\ dArg = NoDate
  /\ cArg = ""
  /\ calcRet = NotCalled
  /\ advRet = NotCalled
  /\ now = NoDate
  /\ paymentMethods = <<>>
  /\ args \in {[plainText |-> p,
                genuine |-> encryptPassword(p, iv),
                cipherText |-> tamper(encryptPassword(p, iv), t)] :
                 p \in Passwords, iv \in IVs, t \in Tamperings}
  /\ subscriptions =
       (1 :> [newRow(1, "user_1", withDefaults(inMonthly), Feb29, "iv1")
                EXCEPT !.accountPasswordEncrypted = <<args.cipherText>>])
  /\ accountCredentials = (1 :> newCredential(1, "user_1", <<args.cipherText>>))
  /\ ret = <<>>

CallDecryptPasswordStored ==
  Returns("decryptPassword", decryptPassword(args.cipherText))

DecryptSubscriptionPassword ==
  \E u \in Users, id \in Ids : decryptSubscriptionPassword(u, id)

DecryptCredentialPassword ==
  \E u \in Users, id \in Ids : decryptCredentialPassword(u, id)

NextTampered ==
  \/ CallDecryptPasswordStored
  \/ DecryptSubscriptionPassword
  \/ DecryptCredentialPassword

SpecTampered == InitTampered /\ [][NextTampered]_vars

\* C21 as claimed: when the stored text is not the one encryptPassword wrote
\* (cut short, lengthened, or a byte of IV, auth tag or payload altered),
\* decryptPassword throws and returns no plaintext, and
\* decryptSubscriptionPassword and decryptCredentialPassword, called by the
\* owner of the row, return success=false with error "Failed to decrypt
\* password" and no data.
C21_TamperedFails ==
  [][args.cipherText # args.genuine =>
       /\ "decryptPassword" \in DOMAIN ret' => ret'["decryptPassword"].thrown
       /\ response'.op = "decryptSubscriptionPassword"
            /\ decryptSubscriptionPassword("user_1", 1)
            => response' = Failure("decryptSubscriptionPassword",
                                   "Failed to decrypt password", {})
       /\ response'.op = "decryptCredentialPassword"
            /\ decryptCredentialPassword("user_1", 1)
            => response' = Failure("decryptCredentialPassword",
                                   "Failed to decrypt password", {})
    ]_vars

----------------------------------------------------------------------------
(* lib/calendar.ts.  Texts are sequences of UTF-16 code units, as in        *)
(* lib/encryption.ts; a price is the numeric column's text, a sequence of    *)
(* one-character strings, as in lib/calculations.ts.                         *)

\* String(n) for an integer n >= 0
RECURSIVE String(_)
String(n) ==
  IF n < 10 THEN <<48 + n>> ELSE String(n \div 10) \o <<48 + (n % 10)>>

\* str.padStart(2, "0")
padStart2(str) == IF Len(str) < 2 THEN <<48>> \o str ELSE str

formatDateTimeForCalendar(date, hour, minute) ==
  String(date.y) \o padStart2(String(date.m)) \o padStart2(String(date.d))
    \o <<84>> \o padStart2(String(hour)) \o padStart2(String(minute))
    \o <<48, 48>>

\* date-fns subDays(date, amount): the local calendar day moves, the time of
\* day stays
subDays(date, amount) ==
  LET c == CivilFromDays(DaysFromCivil(date.y, date.m, date.d) - amount)
  IN  [y |-> c.y, m |-> c.m, d |-> c.d, h |-> date.h]

\* the text of NaN
NaNText == <<78, 97, 78>>

\* numAmount.toFixed(2); amounts are whole cents, kept as twelfths of a cent
toFixed2(number) ==
  IF isNaN(number) THEN NaNText
  ELSE LET cents == (IF number.value < 0 THEN -number.value ELSE number.value) \div 12
       IN  (IF number.value < 0 THEN <<45>> ELSE <<>>)
             \o String(cents \div 100) \o <<46>> \o padStart2(String(cents % 100))

\* the digits of an integer in groups of three, "." between the groups
RECURSIVE grouped(_)
grouped(n) ==
  IF n < 1000 THEN String(n)
  ELSE LET low == String(n % 1000)
       IN  grouped(n \div 1000) \o <<46>>
             \o (IF Len(low) = 1 THEN <<48, 48>> ELSE IF Len(low) = 2 THEN <<48>> ELSE <<>>)
             \o low

\* numAmount.toLocaleString("id-ID"): "." groups the thousands, "," precedes
\* the decimals, of which trailing zeros are dropped
toLocaleStringID(number) ==
  IF isNaN(number) THEN NaNText
  ELSE LET cents == (IF number.value < 0 THEN -number.value ELSE number.value) \div 12
           frac  == cents % 100
       IN  (IF number.value < 0 THEN <<45>> ELSE <<>>)
             \o grouped(cents \div 100)
             \o (IF frac = 0 THEN <<>>
                 ELSE IF frac % 10 = 0 THEN <<44, 48 + frac \div 10>>
                 ELSE <<44>> \o padStart2(String(frac)))

formatCurrency(amount, currency) ==
  LET numAmount == parseFloat(amount)
  IN  IF currency = "IDR" THEN <<82, 112, 32>> \o toLocaleStringID(numAmount)
      ELSE <<36>> \o toFixed2(numAmount)

\* a nullable text column is falsy when it is null or the empty string
present(column) == ~falsy(column)

\* the labels of the description lines
labelSubscription ==
  <<55357, 56524, 32, 83, 117, 98, 115, 99, 114, 105, 112, 116, 105, 111,
    110, 58, 32>>
labelPrice == <<55357, 56496, 32, 80, 114, 105, 99, 101, 58, 32>>
labelCategory ==
  <<55356, 57335, 65039, 32, 67, 97, 116, 101, 103, 111, 114, 121, 58, 32>>
labelAccount == <<55357, 56551, 32, 65, 99, 99, 111, 117, 110, 116, 58, 32>>
labelPayment ==
  <<55357, 56499, 32, 80, 97, 121, 109, 101, 110, 116, 58, 32>>
labelUrl == <<55357, 56599, 32, 85, 82, 76, 58, 32>>
labelNotes == <<55357, 56541, 32, 78, 111, 116, 101, 115, 58, 32>>

\* parts.join("\n")
RECURSIVE join(_, _)
join(parts, separator) ==
  IF parts = <<>> THEN <<>>
  ELSE IF Len(parts) = 1 THEN parts[1]
  ELSE parts[1] \o separator \o join(Tail(parts), separator)

generateEventDescription(subscription) ==
  LET paymentInfo ==
        labelPayment \o subscription.paymentMethodProvider[1]
          \o (IF present(subscription.paymentMethodNumber)
              THEN <<32, 40>> \o subscription.paymentMethodNumber[1] \o <<41>>
              ELSE <<>>)
      parts ==
        <<labelSubscription \o subscription.name,
          labelPrice \o formatCurrency(subscription.price, subscription.currency)>>
          \o (IF present(subscription.category)
              THEN <<labelCategory \o subscription.category[1]>> ELSE <<>>)
          \o (IF present(subscription.accountEmail)
              THEN <<labelAccount \o subscription.accountEmail[1]>> ELSE <<>>)
          \o (IF present(subscription.paymentMethodProvider)
              THEN <<paymentInfo>> ELSE <<>>)
          \o (IF present(subscription.url)
              THEN <<labelUrl \o subscription.url[1]>> ELSE <<>>)
          \o (IF present(subscription.notes)
              THEN <<labelNotes \o subscription.notes[1]>> ELSE <<>>)
  IN  join(parts, <<10>>)

\* the bytes the application/x-www-form-urlencoded serializer leaves as they
\* are: ASCII letters and digits, "*", "-", "." and "_"
urlencodedSafe == (48 .. 57) \cup (65 .. 90) \cup (97 .. 122) \cup {42, 45, 46, 95}

\* an upper-case hexadecimal digit
hexDigit(n) == IF n < 10 THEN 48 + n ELSE 55 + n

\* the serializer over the bytes of a name or value: " " becomes "+", other
\* bytes outside urlencodedSafe become %XX
urlencode(bytes) ==
  concat([i \in 1 .. Len(bytes) |->
    IF bytes[i] = 32 THEN <<43>>
    ELSE IF bytes[i] \in urlencodedSafe THEN <<bytes[i]>>
    ELSE <<37, hexDigit(bytes[i] \div 16), hexDigit(bytes[i] % 16)>>])

\* new URLSearchParams(record).toString(): name=value pairs joined by "&"
RECURSIVE URLSearchParamsToString(_)
URLSearchParamsToString(pairs) ==
  IF pairs = <<>> THEN <<>>
  ELSE urlencode(utf8Encode(pairs[1][1])) \o <<61>> \o urlencode(utf8Encode(pairs[1][2]))
         \o (IF Len(pairs) > 1 THEN <<38>> ELSE <<>>)
         \o URLSearchParamsToString(Tail(pairs))

\* the value of a hexadecimal digit, -1 for another character
hexValue(c) ==
  IF c \in 48 .. 57 THEN c - 48
  ELSE IF c \in 65 .. 70 THEN c - 55
  ELSE IF c \in 97 .. 102 THEN c - 87
  ELSE -1

\* the parser over a name or value: "+" is a space, "%" with two hexadecimal
\* digits after it is a byte, written at the place of the "%"
urldecode(chars) ==
  LET n == Len(chars)
      escape(i) ==
        /\ i >= 1
        /\ i + 2 <= n
        /\ chars[i] = 37
        /\ hexValue(chars[i + 1]) >= 0
        /\ hexValue(chars[i + 2]) >= 0
  IN  concat([i \in 1 .. n |->
        IF escape(i) THEN <<hexValue(chars[i + 1]) * 16 + hexValue(chars[i + 2])>>
        ELSE IF escape(i - 1) \/ escape(i - 2) THEN <<>>
        ELSE IF chars[i] = 43 THEN <<32>>
        ELSE <<chars[i]>>])

\* the position of the first c in chars, Len(chars) + 1 when there is none
indexOf(chars, c) ==
  LET found == {i \in 1 .. Len(chars) : chars[i] = c}
  IN  IF found = {} THEN Len(chars) + 1
      ELSE CHOOSE i \in found : \A j \in found : i <= j

\* new URL(url).searchParams.get(name): the value of the first pair of that
\* name, <<value>>, or Null
RECURSIVE searchParamsGet(_, _)
searchParamsGet(search, name) ==
  IF search = <<>> THEN Null
  ELSE LET amp   == indexOf(search, 38)
           pair  == SubSeq(search, 1, amp - 1)
           eq    == indexOf(pair, 61)
           key   == utf8Decode(urldecode(SubSeq(pair, 1, eq - 1)))
           value == utf8Decode(urldecode(SubSeq(pair, eq + 1, Len(pair))))
       IN  IF pair # <<>> /\ key = name THEN <<value>>
           ELSE searchParamsGet(SubSeq(search, amp + 1, Len(search)), name)

\* the names of the parameters, and the value of action
paramAction == <<97, 99, 116, 105, 111, 110>>
paramText == <<116, 101, 120, 116>>
paramDates == <<100, 97, 116, 101, 115>>
paramDetails == <<100, 101, 116, 97, 105, 108, 115>>
TEMPLATE == <<84, 69, 77, 80, 76, 65, 84, 69>>

\* the bell emoji and a space, which the title starts with
bell == <<55357, 56596, 32>>

\* the URL is baseUrl, "?" and search
generateGoogleCalendarUrl(subscription) ==
  LET title == bell \o subscription.name
      nextPaymentDate == newDate(subscription.nextPaymentDate, tz)
      eventDate == subDays(nextPaymentDate, 1)
      startDateTime == formatDateTimeForCalendar(eventDate, 9, 0)
      endDateTime == formatDateTimeForCalendar(eventDate, 12, 0)
      dates == startDateTime \o <<47>> \o endDateTime
      description == generateEventDescription(subscription)
      params == <<<<paramAction, TEMPLATE>>, <<paramText, title>>,
                  <<paramDates, dates>>, <<paramDetails, description>>>>
  IN  [baseUrl |-> "https://calendar.google.com/calendar/render",
       search |-> URLSearchParamsToString(params)]

----------------------------------------------------------------------------
(* generateGoogleCalendarUrl over bounded subscriptions *)

\* subscription names: a letter, two words, and "&" with a non-ASCII letter
NameN == <<78>>
NameTwoWords == <<97, 32, 98>>
NameAmpersand == <<65, 38, 233>>
CategoryWork == <<87, 111, 114, 107>>
NotesText == <<53, 48, 37, 32, 111, 102, 102>>

CalendarNames == {NameN, NameTwoWords, NameAmpersand}

CalendarDates ==
  {[y |-> MaxYear, m |-> 1, d |-> 1], [y |-> MaxYear, m |-> 2, d |-> 28],
   [y |-> MaxYear, m |-> 3, d |-> 1]}

CalendarRows ==
  {[name |-> n, price |-> p, currency |-> c, nextPaymentDate |-> d,
    category |-> cat, accountEmail |-> Null, paymentMethodProvider |-> Null,
    paymentMethodNumber |-> Null, url |-> Null, notes |-> notes] :
     n \in CalendarNames, p \in {Price999, Price12000},
     c \in currencyValues, d \in CalendarDates,
     cat \in {Null, <<CategoryWork>>}, notes \in {Null, <<NotesText>>}}

InitCalendar ==
  /\ subscriptions = <<>>
  /\ paymentMethods = <<>>
  /\ accountCredentials = <<>>
  /\ nextId = 1
  /\ response = NoResponse
  /\ tz \in TzOffsets \cup WestOffsets
  /\ ClientAtLoad
  /\ NoSeeding
  /\ dArg = NoDate
  /\ cArg = ""
  /\ calcRet = NotCalled
  /\ advRet = NotCalled
  /\ now = NoDate
  /\ args \in [subscription : CalendarRows]
  /\ ret = <<>>

CallGenerateGoogleCalendarUrl ==
  Returns("generateGoogleCalendarUrl", generateGoogleCalendarUrl(args.subscription))

NextCalendar == CallGenerateGoogleCalendarUrl

SpecCalendar == InitCalendar /\ [][NextCalendar]_vars

\* the title the requirement asks for starts with "Renew "
Renew == <<82, 101, 110, 101, 119, 32>>

\* C22 as claimed: the text parameter of the URL generateGoogleCalendarUrl
\* returns for a subscription is "Renew " followed by the subscription's name.
C22_TitleIsRenewName ==
  "generateGoogleCalendarUrl" \in DOMAIN ret
    => searchParamsGet(ret["generateGoogleCalendarUrl"].search, paramText)
         = <<Renew \o args.subscription.name>>

\* str.includes(part)
Contains(str, part) ==
  \E i \in 1 .. Len(str) - Len(part) + 1 :
     SubSeq(str, i, i + Len(part) - 1) = part

\* a calendar date as YYYYMMDD
YYYYMMDD(date) ==
  String(date.y) \o padStart2(String(date.m)) \o padStart2(String(date.d))

\* C23 as claimed: the dates parameter of the URL generateGoogleCalendarUrl
\* returns holds the subscription's nextPaymentDate written as YYYYMMDD: the
\* event is on the day of the next payment.
C23_EventOnPaymentDate ==
  "generateGoogleCalendarUrl" \in DOMAIN ret
    => LET dates == searchParamsGet(ret["generateGoogleCalendarUrl"].search,
                                    paramDates)
       IN  /\ dates # Null
           /\ Contains(dates[1], YYYYMMDD(args.subscription.nextPaymentDate))

----------------------------------------------------------------------------
(* createSubscription and updateSubscription given inputs the schema       *)
(* rejects, beside one input each that it accepts.                          *)

\* a name of 101 characters and notes of 501
Name101 ==
  "NNNNNNNNNNNNNNNNNNNNNNNNNNNNNNNNNNNNNNNNNNNNNNNNNNNNNNNNNNNNNNNNNNNNNNNNNNNNNNNNNNNNNNNNNNNNNNNNNNNNN"
Notes501 ==
  "nnnnnnnnnnnnnnnnnnnnnnnnnnnnnnnnnnnnnnnnnnnnnnnnnnnnnnnnnnnnnnnnnnnnnnnnnnnnnnnnnnnnnnnnnnnnnnnnnnnnnnnnnnnnnnnnnnnnnnnnnnnnnnnnnnnnnnnnnnnnnnnnnnnnnnnnnnnnnnnnnnnnnnnnnnnnnnnnnnnnnnnnnnnnnnnnnnnnnnnnnnnnnnnnnnnnnnnnnnnnnnnnnnnnnnnnnnnnnnnnnnnnnnnnnnnnnnnnnnnnnnnnnnnnnnnnnnnnnnnnnnnnnnnnnnnnnnnnnnnnnnnnnnnnnnnnnnnnnnnnnnnnnnnnnnnnnnnnnnnnnnnnnnnnnnnnnnnnnnnnnnnnnnnnnnnnnnnnnnnnnnnnnnnnnnnnnnnnnnnnnnnnnnnnnnnnnnnnnnnnnnnnnnnnnnnnnnnnnnnnnnnnnnnnnnnnnnnnnnnnnnnnnnnnnnnnnnnnnnnnnnnnnnnnnnnnnnnnnnnnn"

\* what an input has instead of a valid property: the property, and its value
Faults ==
  <<[field |-> "name", value |-> ""],
    [field |-> "name", value |-> Name101],
    [field |-> "price", value |-> 0],
    [field |-> "price", value |-> -9990],
    [field |-> "currency", value |-> "EUR"],
    [field |-> "billingCycle", value |-> "weekly"],
    [field |-> "reminderDays", value |-> -1],
    [field |-> "reminderDays", value |-> 31],
    [field |-> "reminderDaysTenths", value |-> 5],
    [field |-> "notes", value |-> Notes501],
    [field |-> "accountEmail", value |-> "not-an-email"]>>

\* the property a fault is in
pathOf(fault) ==
  IF fault.field = "reminderDaysTenths" THEN "reminderDays" ELSE fault.field

\* the input with the fault in place of what it had
withFault(input, fault) ==
  [[input EXCEPT !.keys = @ \cup {pathOf(fault)}] EXCEPT ![fault.field] = fault.value]

InvalidCreateInputs == {withFault(inMonthly, Faults[k]) : k \in DOMAIN Faults}
InvalidUpdateInputs == {withFault(NoInput, Faults[k]) : k \in DOMAIN Faults}

InitValidation ==
  /\ subscriptions = <<>>
  /\ paymentMethods = <<>>
  /\ accountCredentials = <<>>
  /\ nextId = 1
  /\ response = NoResponse
  /\ tz = 0
  /\ ClientAtLoad
  /\ NoSeeding
  /\ dArg = NoDate
  /\ cArg = ""
  /\ calcRet = NotCalled
  /\ advRet = NotCalled
  /\ now = NoDate
  /\ args = <<>>
  /\ ret = <<>>

CreateSubscriptionChecked ==
  \E u \in Users, input \in {inMonthly} \cup InvalidCreateInputs :
     createSubscription(u, input)

UpdateSubscriptionChecked ==
  \E u \in Users, id \in Ids, input \in {upCycleTrial} \cup InvalidUpdateInputs :
     updateSubscription(u, id, input)

NextValidation == CreateSubscriptionChecked \/ UpdateSubscriptionChecked

SpecValidation == InitValidation /\ [][NextValidation]_vars

\* C24: createSubscription given an input with an empty or over-long name, a
\* price that is not positive, an unknown currency or billing cycle,
\* reminderDays that is negative, above 30 or not whole, notes of more than
\* 500 characters or a malformed email returns success=false with error
\* "Validation failed" and validationErrors that name the property, and stores
\* nothing; updateSubscription given such a property likewise fails, for owner
\* and non-owner, and leaves every record as it was.
C24_InvalidInputRejected ==
  [][/\ \A u \in Users, k \in DOMAIN Faults :
          (/\ response'.op = "createSubscription"
           /\ createSubscription(u, withFault(inMonthly, Faults[k])))
          => /\ ~response'.success
             /\ response'.error = "Validation failed"
             /\ pathOf(Faults[k]) \in response'.validationErrors
             /\ subscriptions' = subscriptions
     /\ \A u \in Users, id \in Ids, k \in DOMAIN Faults :
          (/\ response'.op = "updateSubscription"
           /\ updateSubscription(u, id, withFault(NoInput, Faults[k])))
          => /\ ~response'.success
             /\ response'.error = "Validation failed"
             /\ pathOf(Faults[k]) \in response'.validationErrors
             /\ subscriptions' = subscriptions
    ]_vars

\* an update with notes of 501 characters was refused while a record is stored
C24_Witness ==
  /\ subscriptions # <<>>
  /\ response = Failure("updateSubscription", "Validation failed", {"notes"})

----------------------------------------------------------------------------
(* The two consumers of the day window: getTrialsEndingSoon on a trial       *)
(* record, and isWithinReminderDays on the Date the subscription card makes  *)
(* of the record's nextPaymentDate (components/subscription-card.tsx).       *)

\* thresholds asked for, and how many days from the clock's day a record is due
WindowThresholds == {0, 3, 7}
WindowDueIn == -2 .. 9

\* trial records, by billing cycle and by subscription type
WindowRows ==
  {[billingCycle |-> "trial", subscriptionType |-> "subscription",
    nextPaymentDate |-> DateStrAfter(k)] : k \in WindowDueIn}
  \cup
  {[billingCycle |-> "monthly", subscriptionType |-> "trial",
    nextPaymentDate |-> DateStrAfter(k)] : k \in WindowDueIn}

InitWindow ==
  /\ subscriptions = <<>>
  /\ paymentMethods = <<>>
  /\ accountCredentials = <<>>
  /\ nextId = 1
  /\ response = NoResponse
  /\ tz \in TzOffsets \cup WestOffsets
  /\ ClientAtLoad
  /\ NoSeeding
  /\ dArg = NoDate
  /\ cArg = ""
  /\ calcRet = NotCalled
  /\ advRet = NotCalled
  /\ now \in NowInputs
  /\ args \in [subscription : WindowRows, thresholdDays : WindowThresholds]
  /\ ret = <<>>

\* getTrialsEndingSoon([subscription], thresholdDays)
CallGetTrialsEndingSoonOfOne ==
  Returns("getTrialsEndingSoon",
          getTrialsEndingSoon(<<args.subscription>>, args.thresholdDays))

\* isWithinReminderDays(new Date(subscription.nextPaymentDate), thresholdDays)
CallIsWithinReminderDaysOfRecord ==
  Returns("isWithinReminderDays",
          isWithinReminderDays(newDate(args.subscription.nextPaymentDate, tz),
                               args.thresholdDays))

NextWindow == CallGetTrialsEndingSoonOfOne \/ CallIsWithinReminderDaysOfRecord

SpecWindow == InitWindow /\ [][NextWindow]_vars

----------------------------------------------------------------------------
(* The theme: the ui store in the browser, where window is defined *)

Themes == {"light", "dark", "system"}

\* classes the page's root element carries besides the theme's
OtherClasses == {"antialiased", "h-full"}

\* window.matchMedia('(prefers-color-scheme: dark)').matches ? 'dark' : 'light'
systemTheme(state) == IF state.matches THEN "dark" ELSE "light"

getEffectiveTheme(state) ==
  IF state.theme = "system" THEN systemTheme(state) ELSE state.theme

applyTheme(state, theme) ==
  LET effectiveTheme == IF theme = "system" THEN systemTheme(state) ELSE theme
  IN  IF effectiveTheme = "dark"
      THEN [state EXCEPT !.classList = @ \cup {"dark"}]
      ELSE [state EXCEPT !.classList = @ \ {"dark"}]

\* set({ theme }) under persist: the store takes the value and the storage
\* entry 'theme' is written with it
set(state, theme) == [state EXCEPT !.theme = theme, !.storage = <<theme>>]

setTheme(state, theme) == applyTheme(set(state, theme), theme)

\* toggleTheme deciding by the stored preference, not by the effective theme
toggleThemeFromStored(state) ==
  LET newTheme == IF state.theme = "dark" THEN "light" ELSE "dark"
  IN  applyTheme(set(state, newTheme), newTheme)

toggleTheme(state) ==
  LET effectiveTheme == getEffectiveTheme(state)
      newTheme == IF effectiveTheme = "dark" THEN "light" ELSE "dark"
  IN  applyTheme(set(state, newTheme), newTheme)

\* persist's hydration: the stored theme, if there is one, replaces the
\* initial one, then onRehydrateStorage's callback applies it
rehydrate(state) ==
  LET merged == IF state.storage = Null THEN state
                ELSE [state EXCEPT !.theme = state.storage[1]]
  IN  [applyTheme(merged, merged.theme) EXCEPT !.hydrated = TRUE]

\* the listener of the media query's change event
onChange(state, matches) ==
  LET changed == [state EXCEPT !.matches = matches]
  IN  IF changed.theme = "system" THEN applyTheme(changed, "system")
      ELSE changed

InitTheme ==
  /\ subscriptions = <<>>
  /\ paymentMethods = <<>>
  /\ accountCredentials = <<>>
  /\ nextId = 1
  /\ response = NoResponse
  /\ tz = 0
  /\ ui \in [theme : {"system"},
             storage : {Null} \cup {<<theme>> : theme \in Themes},
             matches : BOOLEAN,
             classList : SUBSET ({"dark"} \cup OtherClasses),
             hydrated : {FALSE}]
  /\ cache = NoQuery
  /\ mutations = <<>>
  /\ NoSeeding
  /\ dArg = NoDate
  /\ cArg = ""
  /\ calcRet = NotCalled
  /\ advRet = NotCalled
  /\ now = NoDate
  /\ args = <<>>
  /\ ret = <<>>

\* a step of the browser: the store and the page change, nothing else does
Browser(state) ==
  /\ ui' = state
  /\ UNCHANGED <<subscriptions, paymentMethods, nextId, response,
                 accountCredentials, cache, mutations, seeding, tz, dArg, cArg, calcRet, advRet, calls>>

Rehydrate == ~ui.hydrated /\ Browser(rehydrate(ui))

SetTheme == ui.hydrated /\ \E theme \in Themes : Browser(setTheme(ui, theme))

ToggleTheme == ui.hydrated /\ Browser(toggleTheme(ui))

SystemPreferenceChanges == ui.hydrated /\ Browser(onChange(ui, ~ui.matches))

\* a component reads getEffectiveTheme()
CallGetEffectiveTheme ==
  /\ ui.hydrated
  /\ ret' = ("getEffectiveTheme" :> getEffectiveTheme(ui))
  /\ ret' # ret
  /\ UNCHANGED <<subscriptions, paymentMethods, nextId, response,
                 accountCredentials, client, seeding, tz, dArg, cArg, calcRet, advRet,
                 now, args>>

NextTheme ==
  \/ Rehydrate
  \/ SetTheme
  \/ ToggleTheme
  \/ SystemPreferenceChanges
  \/ CallGetEffectiveTheme

SpecTheme == InitTheme /\ [][NextTheme]_vars

\* C26: toggleTheme, from any stored preference and either system preference,
\* makes the effective theme the opposite of what it was, leaves an explicit
\* light or dark as the preference, in the store and in its persisted copy,
\* and leaves the root element with the dark class exactly when the new
\* effective theme is dark, its other classes untouched.
C26_ToggleSwitches ==
  [][ToggleTheme =>
       /\ getEffectiveTheme(ui') # getEffectiveTheme(ui)
       /\ ui'.theme \in {"light", "dark"}
       /\ ui'.storage = <<ui'.theme>>
       /\ ("dark" \in ui'.classList) <=> (getEffectiveTheme(ui') = "dark")
       /\ ui'.classList \ {"dark"} = ui.classList \ {"dark"}]_vars

\* a toggle has just turned a system preference, on a system that prefers
\* dark, into an explicit light
C26_Witness ==
  /\ ui.hydrated
  /\ ui.matches
  /\ ui.theme = "light"
  /\ ui.storage = <<"light">>
  /\ "dark" \notin ui.classList
  /\ "getEffectiveTheme" \in DOMAIN ret
  /\ ret["getEffectiveTheme"] = "dark"

----------------------------------------------------------------------------
(* updateSubscription and decryptSubscriptionPassword called by every user   *)
(* on every id, over two users' rows that each hold an encrypted password    *)

\* the passwords the two users stored
StoredPasswords == Passwords \ {<<>>}

\* the ids asked for: the rows', and one no row has
AskedIds == 1 .. MaxSubs + 1

InitOwnership ==
  /\ nextId = 3
  /\ response = NoResponse
  /\ tz = 0
  /\ ClientAtLoad
  /\ NoSeeding
  /\ dArg = NoDate
  /\ cArg = ""
  /\ calcRet = NotCalled
  /\ advRet = NotCalled
  /\ now = NoDate
  /\ paymentMethods = <<>>
  /\ accountCredentials = <<>>
  /\ args \in [password1 : StoredPasswords, password2 : StoredPasswords,
               iv : IVs]
  /\ subscriptions =
       (1 :> [newRow(1, "user_1", withDefaults(inMonthly), Feb29, "iv1")
                EXCEPT !.accountPasswordEncrypted =
                         <<encryptPassword(args.password1, args.iv)>>])
       @@
       (2 :> [newRow(2, "user_2", withDefaults(inMonthly), Feb29, "iv1")
                EXCEPT !.accountPasswordEncrypted =
                         <<encryptPassword(args.password2, args.iv)>>])
  /\ ret = <<>>

UpdateSubscriptionOfAny ==
  \E u \in Users, id \in AskedIds, input \in UpdateInputs :
     updateSubscription(u, id, input)

DecryptSubscriptionPasswordOfAny ==
  \E u \in Users, id \in AskedIds : decryptSubscriptionPassword(u, id)

NextOwnership == UpdateSubscriptionOfAny \/ DecryptSubscriptionPasswordOfAny

SpecOwnership == InitOwnership /\ [][NextOwnership]_vars

\* what decryptSubscriptionPassword answers a caller who owns no row of that id
NotFoundToNonOwner ==
  response'.op = "decryptSubscriptionPassword" =>
    \A u \in Users, id \in AskedIds :
       (owned(u, id) = {} /\ decryptSubscriptionPassword(u, id))
         => response' = Failure("decryptSubscriptionPassword",
                                "Subscription not found", {})

\* C27 as claimed: updateSubscription(u, id, input) by a user who owns no row
\* of that id returns success=false with error "Subscription not found",
\* whatever the input, and changes no stored record;
\* decryptSubscriptionPassword(u, id) by such a user returns success=false
\* with "Subscription not found" and no data.
C27_AsClaimed ==
  [][/\ response'.op = "updateSubscription" =>
          \A u \in Users, id \in AskedIds, input \in UpdateInputs :
             (owned(u, id) = {} /\ updateSubscription(u, id, input))
               => /\ response' = Failure("updateSubscription",
                                         "Subscription not found", {})
                  /\ subscriptions' = subscriptions
     /\ NotFoundToNonOwner]_vars

\* C27: updateSubscription(u, id, input) by a user who owns no row of that id
\* changes no stored record and returns success=false, with error
\* "Subscription not found" when the input passes validation and with
\* "Validation failed" and the input's issues when it does not, the input
\* being validated before the row is looked up;
\* decryptSubscriptionPassword(u, id) by such a user returns success=false
\* with "Subscription not found" and no data.
C27_NonOwnerRefused ==
  [][/\ response'.op = "updateSubscription" =>
          \A u \in Users, id \in AskedIds, input \in UpdateInputs :
             (owned(u, id) = {} /\ updateSubscription(u, id, input))
               => /\ response' =
                       IF updateSubscriptionIssues(input) = {}
                       THEN Failure("updateSubscription",
                                    "Subscription not found", {})
                       ELSE Failure("updateSubscription", "Validation failed",
                                    updateSubscriptionIssues(input))
                  /\ subscriptions' = subscriptions
     /\ NotFoundToNonOwner]_vars

\* a call has been refused with "Subscription not found" while both users'
\* rows, passwords included, are as they were stored
C27_Witness ==
  /\ response.op \in {"updateSubscription", "decryptSubscriptionPassword"}
  /\ response.error = "Subscription not found"
  /\ \A id \in Ids :
        /\ subscriptions[id].billingCycle = "monthly"
        /\ decryptPassword(subscriptions[id].accountPasswordEncrypted[1])
             = Returned(IF id = 1 THEN args.password1 ELSE args.password2)

----------------------------------------------------------------------------
(* Default categories (actions/master-data.ts): seedDefaultCategories and   *)
(* getCategoriesWithSeed, each await a step of its own, called by requests   *)
(* that run side by side                                                     *)

DEFAULT_CATEGORIES == <<"General", "Entertainment", "Tools", "Work", "Utilities">>

\* the five default names
DefaultNames == {DEFAULT_CATEGORIES[i] : i \in DOMAIN DEFAULT_CATEGORIES}

\* the requests the server handles at once, and how many calls each makes
Requests == {"request_1", "request_2"}
MaxCalls == 2

\* the custom_categories row an insert adds (id and createdAt are the row's
\* place in the table)
newCategory(userId, name) == [userId |-> userId, name |-> name]

\* select ... where user_id = userId order by created_at
categoriesOf(table, userId) == SelectSeq(table, LAMBDA row : row.userId = userId)

\* new Set(existing.map((c) => c.name))
namesOf(rows) == {rows[i].name : i \in DOMAIN rows}

\* DEFAULT_CATEGORIES.filter((cat) => !existingNames.has(cat.name))
missing(existingNames) ==
  SelectSeq(DEFAULT_CATEGORIES, LAMBDA cat : cat \notin existingNames)

\* missingDefaults.map((cat) => ({ userId, name: cat.name, color: cat.color }))
inserted(userId, missingDefaults) ==
  [i \in DOMAIN missingDefaults |-> newCategory(userId, missingDefaults[i])]

\* how many rows of the user carry the name
stored(table, userId, name) ==
  Cardinality({i \in DOMAIN table :
                 table[i].userId = userId /\ table[i].name = name})

\* a request that is not inside a call
Idle(calls_made, userId) ==
  [pc |-> "idle", fn |-> "", userId |-> userId, missingDefaults |-> <<>>,
   categories |-> <<>>, calls |-> calls_made]

\* the tables the calls start from: a new user's, one with some defaults left
\* after the user removed others and added one of their own, and a complete one
SeedTables ==
  { <<>>,
    <<newCategory("user_2", "General")>>,
    <<newCategory("user_1", "General"), newCategory("user_1", "Gaming")>>,
    inserted("user_1", DEFAULT_CATEGORIES) }

InitSeeding ==
  /\ subscriptions = <<>>
  /\ paymentMethods = <<>>
  /\ accountCredentials = <<>>
  /\ nextId = 1
  /\ response = NoResponse
  /\ tz = 0
  /\ ClientAtLoad
  /\ customCategories \in SeedTables
  /\ seeds = [r \in Requests |-> Idle(0, "")]
  /\ dArg = NoDate
  /\ cArg = ""
  /\ calcRet = NotCalled
  /\ advRet = NotCalled
  /\ now = NoDate
  /\ args = <<>>
  /\ ret = <<>>

\* a step of a call: the table and the request's position change
SeedStep(r, position, table) ==
  /\ seeds' = [seeds EXCEPT ![r] = position]
  /\ customCategories' = table
  /\ UNCHANGED <<subscriptions, paymentMethods, nextId, response,
                 accountCredentials, client, tz, dArg, cArg, calcRet, advRet,
                 calls>>

\* where a call stands once seedDefaultCategories has returned
seeded(position) ==
  IF position.fn = "getCategoriesWithSeed"
  THEN [position EXCEPT !.pc = "fetch", !.missingDefaults = <<>>]
  ELSE Idle(position.calls, position.userId)

\* seedDefaultCategories(userId), alone or as getCategoriesWithSeed's first
\* statement, up to its first await: the select of the existing names
BeginSeed(r) ==
  /\ seeds[r].pc = "idle"
  /\ seeds[r].calls < MaxCalls
  /\ \E fn \in {"seedDefaultCategories", "getCategoriesWithSeed"}, userId \in Users :
        SeedStep(r, [Idle(seeds[r].calls + 1, userId)
                       EXCEPT !.pc = "select", !.fn = fn],
                 customCategories)

\* the select answers: the missing defaults are worked out and, unless there
\* is none, the insert is sent
SelectExisting(r) ==
  /\ seeds[r].pc = "select"
  /\ LET existing == categoriesOf(customCategories, seeds[r].userId)
         existingNames == namesOf(existing)
         missingDefaults == missing(existingNames)
     IN  SeedStep(r,
                  IF Len(missingDefaults) = 0 THEN seeded(seeds[r])
                  ELSE [seeds[r] EXCEPT !.pc = "insert",
                                        !.missingDefaults = missingDefaults],
                  customCategories)

\* the insert of the missing defaults is carried out
InsertMissing(r) ==
  /\ seeds[r].pc = "insert"
  /\ SeedStep(r, seeded(seeds[r]),
              customCategories
                \o inserted(seeds[r].userId, seeds[r].missingDefaults))

\* getCategoriesWithSeed's own select, and its return
FetchCategories(r) ==
  /\ seeds[r].pc = "fetch"
  /\ SeedStep(r, [Idle(seeds[r].calls, seeds[r].userId)
                    EXCEPT !.categories =
                             categoriesOf(customCategories, seeds[r].userId)],
              customCategories)

NextSeeding ==
  \E r \in Requests :
     \/ BeginSeed(r)
     \/ SelectExisting(r)
     \/ InsertMissing(r)
     \/ FetchCategories(r)

SpecSeeding == InitSeeding /\ [][NextSeeding]_vars

\* the users for whom a call has returned and none is under way
SeededUsers ==
  {u \in Users :
     /\ \E r \in Requests : seeds[r].calls > 0 /\ seeds[r].userId = u
     /\ \A r \in Requests : seeds[r].userId = u => seeds[r].pc = "idle"}

\* C28 as claimed: after any interleaving of seedDefaultCategories and
\* getCategoriesWithSeed calls for a user, two that run side by side
\* included, each of the five default names is stored exactly once for that
\* user; and a call whose select finds all five inserts nothing.
C28_EachDefaultOnce ==
  /\ \A u \in SeededUsers, name \in DefaultNames :
        stored(customCategories, u, name) = 1
  /\ \A r \in Requests :
        seeds[r].pc = "insert" => seeds[r].missingDefaults # <<>>

----------------------------------------------------------------------------
(* hooks/use-subscriptions.ts: the list query of one user and the create,   *)
(* update and delete mutations with their optimistic updates.  A mutation's  *)
(* callbacks run in the browser between network events; the server handles   *)
(* a request, and the browser receives its answer, as steps of their own.    *)

\* the user whose browser this is, and how many mutations the user starts
CacheUser == "user_1"
MaxMutations == 2

\* `temp-${Date.now()}`: an id no stored row has, one for each mutation
tempId(m) == 0 - m

\* price.toString(), as a text of the numeric column: the column's own text
\* for a price the column writes in the same way, (marked by the minus sign)
\* a text the column never holds for any other price
priceToString(thousandths) ==
  IF thousandths % 10 = 0 /\ (thousandths \div 10) % 10 # 0
  THEN thousandths \div 10
  ELSE 0 - thousandths

\* useCreateSubscription's optimisticSubscription
optimisticSubscription(m, userId, newSubscription) ==
  [id |-> tempId(m),
   userId |-> userId,
   name |-> newSubscription.name,
   price |-> priceToString(newSubscription.price),
   currency |-> newSubscription.currency,
   billingCycle |-> newSubscription.billingCycle,
   startDate |-> toISODateString(newSubscription.startDate, tz),
   nextPaymentDate |-> toISODateString(newSubscription.startDate, tz),
   reminderDays |-> newSubscription.reminderDays,
   paymentMethodProvider |->
     OrNull(newSubscription, "paymentMethodProvider",
            newSubscription.paymentMethodProvider),
   paymentMethodNumber |->
     IF Has(newSubscription, "paymentMethodNumber")
        /\ newSubscription.paymentMethodNumber # <<>>
     THEN <<<<"*", "*", "*", "*", " ">>
              \o SubSeq(newSubscription.paymentMethodNumber,
                        IF Len(newSubscription.paymentMethodNumber) > 4
                        THEN Len(newSubscription.paymentMethodNumber) - 3
                        ELSE 1,
                        Len(newSubscription.paymentMethodNumber))>>
     ELSE Null,
   accountEmail |->
     OrNull(newSubscription, "accountEmail", newSubscription.accountEmail),
   accountPasswordEncrypted |->
     IF Has(newSubscription, "accountPassword")
        /\ newSubscription.accountPassword # ""
     THEN <<"encrypted">> ELSE Null,
   notes |-> OrNull(newSubscription, "notes", newSubscription.notes),
   category |-> OrNull(newSubscription, "category", newSubscription.category),
   url |-> OrNull(newSubscription, "url", newSubscription.url),
   status |-> "active"]

\* `input.x ?? sub.x` for a nullable text column
orKept(input, key, value, kept) == IF Has(input, key) THEN <<value>> ELSE kept

\* useUpdateSubscription's optimistic row
optimisticUpdate(sub, input) ==
  [sub EXCEPT
     !.name = IF Has(input, "name") THEN input.name ELSE @,
     !.price = IF Has(input, "price") THEN priceToString(input.price) ELSE @,
     !.currency = IF Has(input, "currency") THEN input.currency ELSE @,
     !.billingCycle =
        IF Has(input, "billingCycle") THEN input.billingCycle ELSE @,
     !.startDate =
        IF Has(input, "startDate") THEN toISODateString(input.startDate, tz)
        ELSE @,
     !.nextPaymentDate =
        IF Has(input, "nextPaymentDate")
        THEN toISODateString(input.nextPaymentDate, tz) ELSE @,
     !.reminderDays =
        IF Has(input, "reminderDays") THEN input.reminderDays ELSE @,
     !.paymentMethodProvider =
        orKept(input, "paymentMethodProvider", input.paymentMethodProvider, @),
     !.accountEmail = orKept(input, "accountEmail", input.accountEmail, @),
     !.notes = orKept(input, "notes", input.notes, @),
     !.category = orKept(input, "category", input.category, @),
     !.url = orKept(input, "url", input.url, @),
     !.status = IF Has(input, "status") THEN input.status ELSE @]

\* onMutate's setQueryData: the list a mutation shows before the server answers
optimistic(previousSubscriptions, m, mutation) ==
  CASE mutation.kind = "create" ->
         previousSubscriptions
           \o <<optimisticSubscription(m, CacheUser, withDefaults(mutation.input))>>
    [] mutation.kind = "update" ->
         [i \in DOMAIN previousSubscriptions |->
            IF previousSubscriptions[i].id = mutation.subscriptionId
            THEN optimisticUpdate(previousSubscriptions[i], mutation.input)
            ELSE previousSubscriptions[i]]
    [] mutation.kind = "delete" ->
         SelectSeq(previousSubscriptions,
                   LAMBDA sub : sub.id # mutation.subscriptionId)

\* what the server action of a mutation does to the table and answers, when
\* the database carries its statements out
handled(mutation) ==
  CASE mutation.kind = "create" ->
         LET data == withDefaults(mutation.input)
             next == IF Has(data, "nextPaymentDate")
                     THEN Returned(data.nextPaymentDate)
                     ELSE calculateNextPaymentDate(data.startDate,
                                                   data.billingCycle)
         IN  IF createSubscriptionIssues(mutation.input) # {} \/ next.thrown
             THEN [success |-> FALSE, table |-> subscriptions, nextId |-> nextId]
             ELSE [success |-> TRUE,
                   table |-> (defaultRandom :>
                                newRow(defaultRandom, CacheUser, data,
                                       next.value, "iv1"))
                             @@ subscriptions,
                   nextId |-> nextId + 1]
    [] mutation.kind = "update" ->
         LET data == withDefaults(mutation.input)
             existing == owned(CacheUser, mutation.subscriptionId)
         IN  IF \/ updateSubscriptionIssues(mutation.input) # {}
                \/ existing = {}
                \/ updateThrows(subscriptions[mutation.subscriptionId], data)
             THEN [success |-> FALSE, table |-> subscriptions, nextId |-> nextId]
             ELSE [success |-> TRUE,
                   table |-> [id \in DOMAIN subscriptions |->
                                IF id \in existing
                                THEN updatedRow(subscriptions[id], data, "iv1")
                                ELSE subscriptions[id]],
                   nextId |-> nextId]
    [] mutation.kind = "delete" ->
         LET result == owned(CacheUser, mutation.subscriptionId)
         IN  [success |-> result # {},
              table |-> [id \in DOMAIN subscriptions \ result |->
                           subscriptions[id]],
              nextId |-> nextId]

\* what the user may ask for
Mutations ==
       [kind : {"create"}, subscriptionId : {NoData},
        input : {inMonthly, inNoName}]
  \cup [kind : {"update"}, subscriptionId : Ids,
        input : {upCycleTrial, upNoPrice}]
  \cup [kind : {"delete"}, subscriptionId : Ids, input : {NoInput}]

\* the list is on the screen: loaded, or still being fetched for the first time
InitCache ==
  /\ tz = 0
  /\ subscriptions =
       (1 :> newRow(1, CacheUser, withDefaults(inTrial), Feb29, "iv1"))
  /\ paymentMethods = <<>>
  /\ accountCredentials = <<>>
  /\ nextId = 2
  /\ response = NoResponse
  /\ ui = initialUIState
  /\ cache \in {[data |-> <<getSubscriptions(CacheUser)>>,
                 fetch |-> [state |-> "idle", data |-> <<>>]],
                [data |-> Null, fetch |-> [state |-> "sent", data |-> <<>>]]}
  /\ mutations = <<>>
  /\ NoSeeding
  /\ dArg = NoDate
  /\ cArg = ""
  /\ calcRet = NotCalled
  /\ advRet = NotCalled
  /\ now = NoDate
  /\ args = <<>>
  /\ ret = <<>>

\* what no step of the browser or of the server's subscription actions changes
CacheFrame ==
  UNCHANGED <<paymentMethods, response, accountCredentials, ui, seeding, tz,
              dArg, cArg, calcRet, advRet, calls>>

\* mutate(variables): onMutate cancels the fetch under way, takes the
\* snapshot, shows the optimistic list when there is a list to change, and
\* the request leaves for the server
Mutate ==
  /\ Len(mutations) < MaxMutations
  /\ \E mutation \in Mutations :
        LET m == Len(mutations) + 1
            previousSubscriptions == cache.data
        IN  /\ cache' =
                 [data |-> IF previousSubscriptions # Null
                           THEN <<optimistic(previousSubscriptions[1], m, mutation)>>
                           ELSE cache.data,
                  fetch |-> [state |-> "idle", data |-> <<>>]]
            /\ mutations' =
                 Append(mutations,
                        [kind |-> mutation.kind,
                         subscriptionId |-> mutation.subscriptionId,
                         input |-> mutation.input,
                         pc |-> "sent",
                         previousSubscriptions |-> previousSubscriptions,
                         success |-> FALSE])
  /\ UNCHANGED <<subscriptions, nextId>>
  /\ CacheFrame

\* the server runs the mutation's action; the database may fail it, and the
\* action then catches the error and answers with a failure
ServerHandles ==
  /\ \E m \in DOMAIN mutations :
        /\ mutations[m].pc = "sent"
        /\ \E databaseFails \in BOOLEAN :
              LET outcome == IF databaseFails
                             THEN [success |-> FALSE, table |-> subscriptions,
                                   nextId |-> nextId]
                             ELSE handled(mutations[m])
              IN  /\ subscriptions' = outcome.table
                  /\ nextId' = outcome.nextId
                  /\ mutations' = [mutations EXCEPT ![m].pc = "answered",
                                                    ![m].success = outcome.success]
  /\ UNCHANGED cache
  /\ CacheFrame

\* the answer arrives: onError puts the snapshot back, onSettled invalidates
\* the list, which drops the fetch under way and starts another
Settle ==
  /\ \E m \in DOMAIN mutations :
        /\ mutations[m].pc = "answered"
        /\ mutations' = [mutations EXCEPT ![m].pc = "settled"]
        /\ cache' =
             [data |-> IF ~mutations[m].success
                          /\ mutations[m].previousSubscriptions # Null
                       THEN mutations[m].previousSubscriptions
                       ELSE cache.data,
              fetch |-> [state |-> "sent", data |-> <<>>]]
  /\ UNCHANGED <<subscriptions, nextId>>
  /\ CacheFrame

\* the server runs getSubscriptions for the fetch: the user's rows, or the
\* empty list its catch returns when the database fails the select
ServerFetches ==
  /\ cache.fetch.state = "sent"
  /\ \E databaseFails \in BOOLEAN :
        cache' = [cache EXCEPT
                    !.fetch = [state |-> "answered",
                               data |-> IF databaseFails THEN <<>>
                                        ELSE getSubscriptions(CacheUser)]]
  /\ UNCHANGED <<subscriptions, nextId, mutations>>
  /\ CacheFrame

\* the fetch's answer arrives and becomes the query's data
FetchArrives ==
  /\ cache.fetch.state = "answered"
  /\ cache' = [data |-> <<cache.fetch.data>>,
               fetch |-> [state |-> "idle", data |-> <<>>]]
  /\ UNCHANGED <<subscriptions, nextId, mutations>>
  /\ CacheFrame

NextCache == Mutate \/ ServerHandles \/ Settle \/ ServerFetches \/ FetchArrives

SpecCache == InitCache /\ [][NextCache]_vars

\* every mutation started has settled and no fetch is under way
AllSettled ==
  /\ mutations # <<>>
  /\ \A m \in DOMAIN mutations : mutations[m].pc = "settled"
  /\ cache.fetch.state = "idle"

\* C29 as claimed: under any interleaving of create, update and delete
\* mutations on the user's list, each succeeding or failing, once every
\* mutation has settled and the refetch the last onSettled started has
\* completed, the cached list is the server's list for the user.
C29_CacheConverges ==
  AllSettled => cache.data = <<getSubscriptions(CacheUser)>>

----------------------------------------------------------------------------
(* Records created with and without a subscriptionType, as the dashboard     *)
(* counts them: createSubscription, then calculateTotalMonthlySpending and   *)
(* getTrialsEndingSoon over the rows getSubscriptions returns               *)

DigitChars == <<"0", "1", "2", "3", "4", "5", "6", "7", "8", "9">>

\* the decimal text of an integer n >= 0, character by character
RECURSIVE decimal(_)
decimal(n) ==
  IF n < 10 THEN <<DigitChars[n + 1]>>
  ELSE decimal(n \div 10) \o <<DigitChars[(n % 10) + 1]>>

\* the text a numeric(10, 2) column is read as: the cents with two decimals
numericText(cents) ==
  decimal(cents \div 100)
    \o <<".", DigitChars[((cents \div 10) % 10) + 1], DigitChars[(cents % 10) + 1]>>

\* the Subscription objects of a select: the price column comes as text
selected(rows) ==
  [i \in DOMAIN rows |-> [rows[i] EXCEPT !.price = numericText(@)]]

TRIALS_THRESHOLD_DAYS == 7

\* the dates the form sends as nextPaymentDate: in three days, in a month
DueSoon == [y |-> MaxYear, m |-> 3, d |-> 1, h |-> 0]
DueLater == [y |-> MaxYear, m |-> 3, d |-> 29, h |-> 0]

\* inputs of every billing cycle, without a subscriptionType and with
\* "subscription"
TypedInputs ==
  {[NoInput EXCEPT
      !.keys = {"name", "price", "currency", "billingCycle", "startDate",
                "nextPaymentDate"} \cup given,
      !.name = "Netflix", !.price = 9990, !.currency = "USD",
      !.billingCycle = cycle, !.startDate = Jan31,
      !.nextPaymentDate = due, !.subscriptionType = "subscription"] :
     cycle \in billingCycleValues, due \in {DueSoon, DueLater},
     given \in {{}, {"subscriptionType"}}}

InitTypeDefault ==
  /\ subscriptions = <<>>
  /\ paymentMethods = <<>>
  /\ accountCredentials = <<>>
  /\ nextId = 1
  /\ response = NoResponse
  /\ tz = 0
  /\ ClientAtLoad
  /\ NoSeeding
  /\ dArg = NoDate
  /\ cArg = ""
  /\ calcRet = NotCalled
  /\ advRet = NotCalled
  /\ now \in NowInputs
  /\ args = <<>>
  /\ ret = <<>>

CreateSubscriptionTyped ==
  \E input \in TypedInputs : createSubscription(CacheUser, input)

\* the dashboard renders: the user's list, the total and the trials ending soon
Dashboard ==
  LET list == selected(getSubscriptions(CacheUser))
      shown ==
        [subscriptions |-> list,
         totalMonthlySpending |-> calculateTotalMonthlySpending(list),
         trialsEndingSoon |-> getTrialsEndingSoon(list, TRIALS_THRESHOLD_DAYS)]
  IN  /\ ret' = shown
      /\ ret' # ret
      /\ UNCHANGED <<subscriptions, paymentMethods, nextId, response,
                     accountCredentials, client, seeding, tz, dArg, cArg,
                     calcRet, advRet, now, args>>

NextTypeDefault == CreateSubscriptionTyped \/ Dashboard

SpecTypeDefault == InitTypeDefault /\ [][NextTypeDefault]_vars

\* the list without its i-th element
without(list, i) == SubSeq(list, 1, i - 1) \o SubSeq(list, i + 1, Len(list))

\* is the row among the rows of the list
among(row, list) == \E i \in DOMAIN list : list[i] = row

\* C30: createSubscription stores subscriptionType "trial" for an input
\* without one, whatever its billingCycle, with status active and the price
\* given; and on the dashboard every such record adds nothing to
\* calculateTotalMonthlySpending (the total is the total of the list without
\* it) and is among getTrialsEndingSoon exactly when its nextPaymentDate is
\* within the threshold, its billingCycle being monthly or yearly or any other.
C30_DefaultsToTrial ==
  [][/\ response'.op = "createSubscription" /\ response'.success =>
          \A input \in TypedInputs :
             (~Has(input, "subscriptionType")
                /\ createSubscription(CacheUser, input))
               => LET row == subscriptions'[response'.id]
                  IN  /\ row.subscriptionType = "trial"
                      /\ row.status = "active"
                      /\ row.billingCycle = input.billingCycle
                      /\ row.price = numeric(input.price)
     /\ ret' # <<>> =>
          \A i \in DOMAIN ret'.subscriptions :
             LET sub == ret'.subscriptions[i]
             IN  sub.subscriptionType = "trial" =>
                   /\ ret'.totalMonthlySpending =
                        calculateTotalMonthlySpending(
                          without(ret'.subscriptions, i))
                   /\ among(sub, ret'.trialsEndingSoon)
                        <=> isWithinReminderDays(
                              newDate(sub.nextPaymentDate, tz),
                              TRIALS_THRESHOLD_DAYS)]_vars

\* the dashboard has shown a record created without a subscriptionType next
\* to one created with "subscription", both monthly at 9.99 and due in three
\* days: the total is the second's price alone and the first is among the
\* trials ending soon
C30_Witness ==
  /\ ret # <<>>
  /\ Len(ret.subscriptions) = 2
  /\ \A i \in DOMAIN ret.subscriptions :
        /\ ret.subscriptions[i].billingCycle = "monthly"
        /\ ret.subscriptions[i].status = "active"
        /\ ret.subscriptions[i].price = <<"9", ".", "9", "9">>
  /\ \E i \in DOMAIN ret.subscriptions :
        /\ ret.subscriptions[i].subscriptionType = "trial"
        /\ ret.trialsEndingSoon = <<ret.subscriptions[i]>>
  /\ \E i \in DOMAIN ret.subscriptions :
        ret.subscriptions[i].subscriptionType = "subscription"
  /\ ret.totalMonthlySpending = parseFloat(<<"9", ".", "9", "9">>).value

====
